---- MODULE Spec2Model ----
(***************************************************************************)
(* Model of the sandbox execution core of porkg:                           *)
(*   - the framed, descriptor-passing IPC of porkg-private/src/io.rs,      *)
(*   - the controller / zygote / worker protocol of                        *)
(*     porkg-linux/src/sandbox.rs,                                         *)
(*   - the exit-code contract of porkg-private/src/os/proc.rs.             *)
(*                                                                         *)
(* A Unix stream socket is a queue of kernel buffers (skbs); each skb      *)
(* holds the bytes of one successful send and the descriptors that were    *)
(* attached to that send (SCM_RIGHTS).  A descriptor is named by the open  *)
(* file description it refers to, so a descriptor that was passed through  *)
(* the socket (and so duplicated by the kernel) keeps its name.            *)
(***************************************************************************)
EXTENDS Integers, Sequences, FiniteSets, TLC

\* ---------------------------------------------------------------- constants

HEADER_SIZE == 8
READ_BUFFER_SIZE == 8192
FD_BUFFER_SIZE == 128
CMD_HELLO == 1
CMD_START == 2

\* ------------------------------------------------------------------- bounds

\* messages sent back to back on the socket pair of the IO specification
MaxMsgs == 2
\* a short write accepts 1..MaxShortWrite bytes (or everything that is left)
MaxShortWrite == 2
\* descriptors attached to one message (besides the oversized list)
MaxFds == 2

\* ------------------------------------------------------------------ helpers

Min(a, b) == IF a < b THEN a ELSE b

Range(s) == {s[i] : i \in 1..Len(s)}

Take(s, n) == SubSeq(s, 1, Min(n, Len(s)))

Drop(s, n) == SubSeq(s, n + 1, Len(s))

\* the descriptors base+1 .. base+n, in order
FdList(base, n) == [i \in 1..n |-> base + i]

\* --------------------------------------------------------------- encodings

\* lengths that do not fit the model's integers decode to this value; no
\* stream of the model ever holds that many bytes
LenTooLarge == 256 * 65536

RECURSIVE ToNeBytes(_, _)
\* usize::to_ne_bytes / i32::to_le_bytes of a non-negative n on w bytes
ToNeBytes(n, w) ==
    IF w = 0 THEN <<>> ELSE <<n % 256>> \o ToNeBytes(n \div 256, w - 1)

\* usize::from_ne_bytes of the 8 header bytes
FromNeBytes(bs) ==
    IF \E i \in 4..Len(bs) : bs[i] # 0
    THEN LenTooLarge
    ELSE bs[1] + 256 * bs[2] + 65536 * bs[3]

\* two's complement of an i32 in -2^24 .. 2^24 as four bytes
I32Bytes(v) ==
    IF v >= 0
    THEN ToNeBytes(v, 4)
    ELSE LET m == v + 16777216 IN <<m % 256, (m \div 256) % 256, (m \div 65536) % 256, 255>>

\* the i32 held by four bytes (values of the model's range)
I32OfBytes(bs) ==
    LET u == bs[1] + 256 * bs[2] + 65536 * bs[3]
    IN IF bs[4] >= 128 THEN u - 16777216 + (bs[4] - 255) * 16777216 ELSE u + bs[4] * 16777216

\* A serializable value: [ty |-> "unit"] is a unit struct (no bytes),
\* [ty |-> "i32", value |-> v] a struct of one i32, [ty |-> "bad"] a value
\* whose Serialize implementation reports an error.
\* bincode::serialize_into
serialize(V) ==
    CASE V.ty = "unit" -> [ok |-> TRUE, bytes |-> <<>>]
      [] V.ty = "i32" -> [ok |-> TRUE, bytes |-> I32Bytes(V.value)]
      [] OTHER -> [ok |-> FALSE, bytes |-> <<>>]

\* bincode::deserialize_from for the type ty; trailing bytes are not read
deserialize(ty, bytes) ==
    CASE ty = "unit" -> [ok |-> TRUE, val |-> [ty |-> "unit", value |-> 0]]
      [] ty = "i32" /\ Len(bytes) >= 4 ->
            [ok |-> TRUE, val |-> [ty |-> "i32", value |-> I32OfBytes(Take(bytes, 4))]]
      [] OTHER -> [ok |-> FALSE, val |-> [ty |-> "bad", value |-> 0]]

\* the header counts itself
FrameLenWithPrefix(payload) ==
    ToNeBytes(Len(payload) + HEADER_SIZE, HEADER_SIZE) \o payload

\* the buffer send_message hands to send_all: header, then the payload
Frame(payload) == ToNeBytes(Len(payload), HEADER_SIZE) \o payload

\* ------------------------------------------------------------ kernel socket

\* a socket that joins every send to the skb before it, descriptors included
send_fdsJoined(queue, bytes, fds) ==
    IF queue # <<>>
    THEN [queue EXCEPT ![Len(queue)].data = @ \o bytes, ![Len(queue)].fds = @ \o fds]
    ELSE Append(queue, [data |-> bytes, fds |-> fds])

\* sendmsg with SCM_RIGHTS: one skb with the accepted bytes and the descriptors.
\* A receive copies across skbs without descriptors, so an skb without
\* descriptors that follows another one is kept joined to it.
send_fds(queue, bytes, fds) ==
    IF fds = <<>> /\ queue # <<>> /\ queue[Len(queue)].fds = <<>>
    THEN [queue EXCEPT ![Len(queue)].data = @ \o bytes]
    ELSE Append(queue, [data |-> bytes, fds |-> fds])

RECURSIVE StreamRecv(_, _, _, _)
\* recvmsg on a stream socket: copies up to n bytes from the head skbs; the
\* descriptors of an skb are detached with its first byte and end the call
StreamRecv(queue, n, data, fds) ==
    IF queue = <<>> \/ n = 0
    THEN [data |-> data, fds |-> fds, queue |-> queue]
    ELSE LET skb == Head(queue)
             chunk == Min(n, Len(skb.data))
             d == data \o Take(skb.data, chunk)
             f == fds \o skb.fds
         IN IF chunk < Len(skb.data)
            THEN [data |-> d, fds |-> f,
                  queue |-> <<[data |-> Drop(skb.data, chunk), fds |-> <<>>]>> \o Tail(queue)]
            ELSE IF skb.fds # <<>>
                 THEN [data |-> d, fds |-> f, queue |-> Tail(queue)]
                 ELSE StreamRecv(Tail(queue), n - chunk, d, f)

\* recv_fds(&mut buffer[..to_read], &mut fd_buffer): descriptors that do not
\* fit fd_buffer are closed, they are not delivered by a later call
recv_fds(queue, to_read, fd_cap) ==
    LET r == StreamRecv(queue, to_read, <<>>, <<>>)
    IN [data |-> r.data, fds |-> Take(r.fds, fd_cap), queue |-> r.queue]

\* the sizes a send of rem bytes may accept
ChunkSizes(rem) == {k \in 1..rem : k <= MaxShortWrite \/ k = rem}

\* -------------------------------------------------------------------- state

VARIABLES
    msgs,      \* IO: the messages [V, D] the sending end will send, in order
    snd,       \* IO: the sending end's send_message / send_all in progress; fdOffs
               \*     holds the offsets whose send handed descriptors to the kernel
    q,         \* IO: the skbs queued from the sending to the receiving end
    rcv,       \* IO: the receiving end's recv_message / recv_exact in progress;
               \*     `after`: the call began when every message had been sent
    rcvOut,    \* IO: the results [val, fds] of the completed recv_message calls
    phase,     \* the controller: "started" (SandboxProcess) or "connected"
    calls,     \* the spawn_async calls on clones of the controller
    lock,      \* the call that holds the controller's async mutex, or 0
    sock,      \* the skbs queued on the control socket, towards the zygote
    written,   \* history: every byte written to the control socket, [val, own]
    zy,        \* the zygote process: zygote_main and start_worker
    workers,   \* the worker processes, in the order they were cloned
    raw,       \* the test peer that drives zygote_main in place of a controller
    child,     \* a ChildProcess handle, its owner, the child process and the clock
    cln,       \* one call of CloneSyscall::clone and the process it creates
    pool,      \* BUFFER_POOL, CURRENT_SIZE and the threads that use the pool
    maps,      \* one call of write_mappings and the files of /proc/<pid> it writes
    fs         \* one call of FsSyscall::bind or FsSyscall::pivot and its system calls

ioVars == <<msgs, snd, q, rcv, rcvOut>>

ctlVars == <<phase, calls, lock, written>>

procVars == <<sock, zy, workers>>

sysVars == <<child, cln, pool, maps, fs>>

vars == <<msgs, snd, q, rcv, rcvOut, phase, calls, lock, sock, written, zy, workers, raw,
          child, cln, pool, maps, fs>>

\* the parts of the state a specification does not use
SysUnused ==
    /\ child = [pc |-> "none"] /\ cln = [pc |-> "none"] /\ pool = [pc |-> "none"]
    /\ maps = [pc |-> "none"]
    /\ fs = [pc |-> "none"]

\* ------------------------------------------------------- IO: send_message

\* the kinds of message of the IO specification: a unit struct without
\* descriptors, a one-i32 struct with MaxFds descriptors, and one with more
\* descriptors than the receiver's fd_buffer holds
MsgKinds ==
    { [V |-> [ty |-> "unit", value |-> 0], nfds |-> 0],
      [V |-> [ty |-> "i32", value |-> -2], nfds |-> MaxFds],
      [V |-> [ty |-> "i32", value |-> 258], nfds |-> FD_BUFFER_SIZE + 1] }

\* message i of kind k carries the descriptors 1000*i+1 .. 1000*i+nfds
MsgOf(k, i) == [V |-> k.V, D |-> FdList(1000 * i, k.nfds)]

SndIdle == [pc |-> "idle", idx |-> 1, frame |-> <<>>, buf |-> <<>>, fds |-> <<>>,
            off |-> 0, retried |-> FALSE, fdOffs |-> {}]

RcvIdle == [pc |-> "idle", buf |-> <<>>, need |-> 0, fds |-> <<>>, after |-> FALSE]

InitIo ==
    /\ \E n \in 1..MaxMsgs : \E ks \in [1..n -> MsgKinds] :
          msgs = [i \in 1..n |-> MsgOf(ks[i], i)]
    /\ snd = SndIdle
    /\ q = <<>>
    /\ rcv = RcvIdle
    /\ rcvOut = <<>>
    /\ phase = "none"
    /\ calls = <<>>
    /\ lock = 0
    /\ sock = <<>>
    /\ written = <<>>
    /\ zy = [pc |-> "none"]
    /\ workers = <<>>
    /\ raw = [sent |-> 0]
    /\ SysUnused

\* send_message up to the call of send_all: take a buffer, reserve the header,
\* serialize, fill the header in
SendMessage ==
    /\ snd.pc = "idle"
    /\ snd.idx <= Len(msgs)
    /\ LET s == serialize(msgs[snd.idx].V)
       IN IF s.ok
          THEN snd' = [snd EXCEPT !.pc = "sending", !.frame = Frame(s.bytes),
                                  !.buf = Frame(s.bytes), !.fds = msgs[snd.idx].D,
                                  !.off = 0, !.retried = FALSE, !.fdOffs = {}]
          ELSE snd' = [snd EXCEPT !.pc = "failed"]
    /\ UNCHANGED <<msgs, q, rcv, rcvOut, ctlVars, procVars, raw, sysVars>>

\* the descriptor slice after one pass of the send_all loop
NextFdsResend(outcome, fds) == fds

NextFds(outcome, fds) == IF outcome = "sent" THEN <<>> ELSE fds

\* one pass of the send_all loop whose send_fds accepts k bytes
SendAllStep ==
    /\ snd.pc = "sending"
    /\ \E k \in ChunkSizes(Len(snd.buf)) :
          /\ q' = send_fds(q, Take(snd.buf, k), snd.fds)
          /\ LET rest == Drop(snd.buf, k)
             IN snd' = [snd EXCEPT !.buf = rest,
                                   !.fds = NextFds("sent", snd.fds),
                                   !.off = snd.off + k,
                                   !.fdOffs = IF snd.fds # <<>> THEN @ \cup {snd.off}
                                              ELSE @,
                                   !.pc = IF rest = <<>> THEN "idle" ELSE "sending",
                                   !.idx = IF rest = <<>> THEN snd.idx + 1 ELSE snd.idx]
    /\ UNCHANGED <<msgs, rcv, rcvOut, ctlVars, procVars, raw, sysVars>>

\* send_fds reports WouldBlock: write_with waits for readiness and calls the
\* closure again, with the same bytes and descriptors, any number of times
\* (snd.retried records that it happened during this send_all)
SendAllWouldBlock ==
    /\ snd.pc = "sending"
    /\ snd' = [snd EXCEPT !.retried = TRUE,
                          !.fds = NextFds("would_block", snd.fds)]
    /\ UNCHANGED <<msgs, q, rcv, rcvOut, ctlVars, procVars, raw, sysVars>>

\* send_fds reports another error: send_all and send_message return it
SendAllError ==
    /\ snd.pc = "sending"
    /\ snd' = [snd EXCEPT !.pc = "failed"]
    /\ UNCHANGED <<msgs, q, rcv, rcvOut, ctlVars, procVars, raw, sysVars>>

\* ------------------------------------------------------- IO: recv_message

\* a pass of the recv_exact loop that asks for a whole read buffer
RecvExactStepWholeBuffer(queue, need) ==
    recv_fds(queue, READ_BUFFER_SIZE, FD_BUFFER_SIZE)

\* one pass of the recv_exact loop with `need` bytes still missing
RecvExactStep(queue, need) ==
    recv_fds(queue, Min(READ_BUFFER_SIZE, need), FD_BUFFER_SIZE)

\* recv_message is called with a fresh descriptor vector
RecvMessage ==
    /\ rcv.pc = "idle"
    /\ Len(rcvOut) < Len(msgs)
    /\ rcv' = [pc |-> "hdr", buf |-> <<>>, need |-> HEADER_SIZE, fds |-> <<>>,
               after |-> snd.pc = "idle" /\ snd.idx > Len(msgs)]
    /\ UNCHANGED <<msgs, snd, q, rcvOut, ctlVars, procVars, raw, sysVars>>

\* the state of a recv_message after a pass of recv_exact left it with the
\* bytes buf and the descriptors fds, `need` bytes missing: it goes on with the
\* payload once the header is complete and deserializes once the payload is
RecvAdvance(pc, ty, buf, need, fds) ==
    IF need > 0
    THEN [pc |-> pc, buf |-> buf, need |-> need, fds |-> fds, done |-> FALSE,
          val |-> [ty |-> "bad", value |-> 0]]
    ELSE IF pc = "hdr" /\ FromNeBytes(buf) > 0
         THEN [pc |-> "body", buf |-> <<>>, need |-> FromNeBytes(buf), fds |-> fds,
               done |-> FALSE, val |-> [ty |-> "bad", value |-> 0]]
         ELSE LET d == deserialize(ty, IF pc = "hdr" THEN <<>> ELSE buf)
              IN [pc |-> IF d.ok THEN "idle" ELSE "failed", buf |-> <<>>, need |-> 0,
                  fds |-> fds, done |-> d.ok, val |-> d.val]

\* one blocking recv_fds of the recv_exact loop of recv_message
RecvStep ==
    /\ rcv.pc \in {"hdr", "body"}
    /\ q # <<>>
    /\ LET r == RecvExactStep(q, rcv.need)
           a == RecvAdvance(rcv.pc, msgs[Len(rcvOut) + 1].V.ty, rcv.buf \o r.data,
                            rcv.need - Len(r.data), rcv.fds \o r.fds)
       IN /\ q' = r.queue
          /\ rcv' = [pc |-> a.pc, buf |-> a.buf, need |-> a.need, fds |-> a.fds,
                     after |-> rcv.after]
          /\ rcvOut' = IF a.done THEN Append(rcvOut, [val |-> a.val, fds |-> a.fds])
                       ELSE rcvOut
    /\ UNCHANGED <<msgs, snd, ctlVars, procVars, raw, sysVars>>

NextIo ==
    \/ SendMessage
    \/ SendAllStep
    \/ SendAllWouldBlock
    \/ SendAllError
    \/ RecvMessage
    \/ RecvStep

\* send_message / recv_message on the two ends of one socket pair
SpecIo == InitIo /\ [][NextIo]_vars

\* ------------------------------------------------------- protocol: bounds

\* concurrent spawn_async calls on clones of one controller
MaxCalls == 2
\* sends of the test peer that drives zygote_main directly
MaxRaw == 5

\* the task type T of the controller and the zygote: a struct of one i32
TaskTy == "i32"

\* ---------------------------------------------------- protocol: exit codes

\* the codes the ExecuteError of a task may report
ReportCodes == {-1, 3, 256}

\* what task.execute(fds) may return
ExecResults == {[ok |-> TRUE, code |-> 0]} \cup {[ok |-> FALSE, code |-> c] : c \in ReportCodes}

\* every WorkerError reports -1
WorkerErrorReportAlwaysMinusOne(err) == 0 - 1

\* impl IntoExitCode for WorkerError<T>
WorkerErrorReport(err) == IF err.kind = "Task" THEN err.code ELSE 0 - 1

\* impl IntoExitCode for Result<T, E>
ResultReport(res) == IF res.ok THEN 0 ELSE WorkerErrorReport(res.err)

\* impl IntoExitCode for anyhow::Error
AnyhowReport == 0 - 1

\* the wait status of a process that ends in exit(code): the low byte of the
\* two's complement of code
ExitStatus(code) ==
    IF code >= 0 THEN code % 256 ELSE (256 - ((0 - code) % 256)) % 256

\* task.execute(fds).map_err(WorkerError::Task)
MapErrTask(r) ==
    IF r.ok THEN [ok |-> TRUE, err |-> [kind |-> "None", code |-> 0]]
    ELSE [ok |-> FALSE, err |-> [kind |-> "Task", code |-> r.code]]

\* ------------------------------------------------------ protocol: controller

CallIdle == [pc |-> "idle", task |-> [ty |-> "bad", value |-> 0], fds |-> <<>>,
             buf |-> <<>>, sfds |-> <<>>, ret |-> 0]

\* calls[c].ret records the how-manieth call to return Ok call c was, and
\* workers[i].execAt the how-manieth worker to begin execute worker i was
ReturnedOk == Cardinality({c \in 1..MaxCalls : calls[c].pc = "ok"})

\* the arguments call i may pass: a task that serializes, without or with
\* descriptors, or a task whose serialization fails
CallArgs(i) ==
    { [task |-> [ty |-> TaskTy, value |-> i], fds |-> <<>>],
      [task |-> [ty |-> TaskTy, value |-> i], fds |-> FdList(1000 * i, MaxFds)],
      [task |-> [ty |-> "bad", value |-> i], fds |-> FdList(1000 * i, 1)] }

\* the bytes appended to the history of the control socket by call own
WriteHist(h, bytes, own) ==
    h \o [j \in 1..Len(bytes) |-> [val |-> bytes[j], own |-> own]]

\* SandboxProcess::connect: send the HELLO byte, wrap the state in the mutex
Connect ==
    /\ phase = "started"
    /\ phase' = "connected"
    /\ sock' = send_fds(sock, <<CMD_HELLO>>, <<>>)
    /\ written' = WriteHist(written, <<CMD_HELLO>>, 0)
    /\ UNCHANGED <<ioVars, calls, lock, zy, workers, raw, sysVars>>

\* the mutex is free
MutexFree(l) == l = 0

\* spawn_async(task, fds) of call i: lock_arc().await returns the guard
SpawnLock(i) ==
    /\ phase = "connected"
    /\ calls[i].pc = "idle"
    /\ MutexFree(lock)
    /\ \E a \in CallArgs(i) :
          calls' = [calls EXCEPT ![i] = [CallIdle EXCEPT !.pc = "start", !.task = a.task,
                                                        !.fds = a.fds]]
    /\ lock' = i
    /\ UNCHANGED <<ioVars, phase, sock, written, zy, workers, raw, sysVars>>

\* spawn_async: send_all(&[CMD_START], &[])
SpawnSendStart(i) ==
    /\ calls[i].pc = "start"
    /\ sock' = send_fds(sock, <<CMD_START>>, <<>>)
    /\ written' = WriteHist(written, <<CMD_START>>, i)
    /\ calls' = [calls EXCEPT ![i].pc = "msg"]
    /\ UNCHANGED <<ioVars, phase, lock, zy, workers, raw, sysVars>>

\* spawn_async: send_message(&task, fds) up to its send_all; a serialization
\* error is returned, which drops the guard
SpawnSendMessage(i) ==
    /\ calls[i].pc = "msg"
    /\ LET s == serialize(calls[i].task)
       IN IF s.ok
          THEN /\ calls' = [calls EXCEPT ![i].pc = "sending", ![i].buf = Frame(s.bytes),
                                         ![i].sfds = calls[i].fds]
               /\ lock' = lock
          ELSE /\ calls' = [calls EXCEPT ![i].pc = "err"]
               /\ lock' = 0
    /\ UNCHANGED <<ioVars, phase, sock, written, zy, workers, raw, sysVars>>

\* send_all leaves its loop with one byte still to send
SendAllDoneEarly(rest) == Len(rest) <= 1

\* send_all: while data.has_remaining() is over
SendAllDone(rest) == rest = <<>>

\* spawn_async: one pass of the send_all loop of send_message; after the last
\* one the call returns Ok and drops the guard
SpawnSendStep(i) ==
    /\ calls[i].pc = "sending"
    /\ \E k \in ChunkSizes(Len(calls[i].buf)) :
          LET rest == Drop(calls[i].buf, k)
          IN /\ sock' = send_fds(sock, Take(calls[i].buf, k), calls[i].sfds)
             /\ written' = WriteHist(written, Take(calls[i].buf, k), i)
             /\ calls' = [calls EXCEPT ![i].buf = rest,
                                       ![i].sfds = NextFds("sent", calls[i].sfds),
                                       ![i].pc = IF SendAllDone(rest) THEN "ok"
                                                 ELSE "sending",
                                       ![i].ret = IF SendAllDone(rest) THEN ReturnedOk + 1
                                                  ELSE 0]
             /\ lock' = IF SendAllDone(rest) THEN 0 ELSE lock
    /\ UNCHANGED <<ioVars, phase, zy, workers, raw, sysVars>>

\* the future of spawn_async is dropped while a send_all awaits the socket:
\* the guard is dropped with it
SpawnCancel(i) ==
    /\ calls[i].pc \in {"start", "sending"}
    /\ calls' = [calls EXCEPT ![i].pc = "cancelled"]
    /\ lock' = 0
    /\ UNCHANGED <<ioVars, phase, sock, written, zy, workers, raw, sysVars>>

\* ---------------------------------------------------------- protocol: zygote

ZyInit == [pc |-> "hello", buf |-> <<>>, need |-> 1, fds |-> <<>>,
           task |-> [ty |-> "bad", value |-> 0], exit |-> 0 - 1, why |-> "", blocks |-> 0,
           first |-> 0 - 1, cmd |-> 0 - 1, dropped |-> 0, eofs |-> 0]

\* zy.first, zy.cmd and zy.dropped record what zygote_main read and threw away:
\* the handshake byte, the last command byte, and the number of descriptors that
\* came with the handshake and command bytes; zy.blocks counts the task messages
\* and zy.eofs the receives that returned no byte

\* zygote_main returns Err: the clone wrapper exits with its report
ZyExit(z, why) ==
    [z EXCEPT !.pc = "exited", !.buf = <<>>, !.need = 0, !.fds = <<>>,
              !.exit = ExitStatus(AnyhowReport), !.why = why]

\* the top of the command loop: a fresh descriptor vector, one byte to read
ZyLoop(z) == [z EXCEPT !.pc = "cmd", !.buf = <<>>, !.need = 1, !.fds = <<>>]

\* the command loop goes on after a command that is not START
ZyCommandIgnoreUnknown(z, b, fds) ==
    LET z1 == [z EXCEPT !.cmd = b, !.dropped = z.dropped + Len(fds)]
    IN IF b = CMD_START
       THEN [z1 EXCEPT !.pc = "hdr", !.buf = <<>>, !.need = HEADER_SIZE, !.fds = <<>>]
       ELSE ZyLoop(z1)

\* the command byte b was read, with the descriptors fds: fds.clear(), then
\* the match on the command
ZyCommand(z, b, fds) ==
    LET z1 == [z EXCEPT !.cmd = b, !.dropped = z.dropped + Len(fds)]
    IN IF b = CMD_START
       THEN [z1 EXCEPT !.pc = "hdr", !.buf = <<>>, !.need = HEADER_SIZE, !.fds = <<>>]
       ELSE ZyExit(z1, "protocol")

\* recv_message of the task after one more recv_fds
ZyMessage(z, buf, need, fds) ==
    LET a == RecvAdvance(z.pc, TaskTy, buf, need, fds)
    IN IF a.pc = "failed" THEN ZyExit(z, "message")
       ELSE IF a.done
            THEN [z EXCEPT !.pc = "spawn", !.buf = <<>>, !.need = 0, !.fds = a.fds,
                           !.task = a.val, !.blocks = z.blocks + 1]
            ELSE [z EXCEPT !.pc = a.pc, !.buf = a.buf, !.need = a.need, !.fds = a.fds]

\* one blocking recv_fds of zygote_main: of the handshake byte (its descriptor
\* vector is a temporary), of a command byte, or of the task message
ZygoteRecv ==
    /\ zy.pc \in {"hello", "cmd", "hdr", "body"}
    /\ sock # <<>>
    /\ LET r == RecvExactStep(sock, zy.need)
       IN /\ sock' = r.queue
          /\ zy' = CASE zy.pc = "hello" ->
                          [ZyLoop(zy) EXCEPT !.first = r.data[1], !.dropped = Len(r.fds)]
                     [] zy.pc = "cmd" -> ZyCommand(zy, r.data[1], zy.fds \o r.fds)
                     [] OTHER -> ZyMessage(zy, zy.buf \o r.data, zy.need - Len(r.data),
                                           zy.fds \o r.fds)
    /\ UNCHANGED <<ioVars, ctlVars, workers, raw, sysVars>>

\* a recv_fds of zygote_main fails: the error is returned
ZygoteRecvError ==
    /\ zy.pc \in {"hello", "cmd", "hdr", "body"}
    /\ zy' = ZyExit(zy, "socket")
    /\ UNCHANGED <<ioVars, ctlVars, sock, workers, raw, sysVars>>

\* the receives of no byte that are followed
MaxEofs == 2

\* a recv_fds of zygote_main on a socket whose peer is closed and whose bytes
\* are read returns (0, 0): recv_exact puts nothing into the buffer, which
\* has_remaining_mut as before, and the loop goes on with the next recv_fds
ZygoteRecvEof ==
    /\ zy.pc \in {"hello", "cmd", "hdr", "body"}
    /\ phase = "closed"
    /\ sock = <<>>
    /\ zy.eofs < MaxEofs
    /\ zy' = [zy EXCEPT !.eofs = zy.eofs + 1]
    /\ UNCHANGED <<ioVars, ctlVars, sock, workers, raw, sysVars>>

\* task.create_sandbox_options(): what the task asks for; some tasks ask for
\* network isolation
create_sandbox_options(t) == [network_isolation |-> t.value % 4 = 2]

\* the flags start_worker passes to S::clone for a task with the options opts
WorkerCloneFlags(opts) == {"NEWPID", "NEWNS", "NEWUSER"}

\* clone_fds: a duplicate of every descriptor
clone_fds(fds) == [j \in 1..Len(fds) |-> fds[j]]

\* a worker process right after the clone: blocked in read_exact, holding the
\* task and the descriptors its closure passed to worker_main
NewWorker(task, fds) ==
    [task |-> task, fds |-> fds, opts |-> create_sandbox_options(task),
     flags |-> WorkerCloneFlags(create_sandbox_options(task)),
     pc |-> "read", mapped |-> FALSE, sig |-> 0,
     got |-> FALSE, idsSet |-> FALSE, execs |-> 0, execAt |-> 0, execFds |-> <<>>,
     res |-> [ok |-> TRUE, code |-> 0], exit |-> 0 - 1]

\* start_worker writes the proceed byte right after the clone
StartWorkerNextNoMappings(step) ==
    CASE step = "clone" -> "go"
      [] step = "map" -> "go"
      [] OTHER -> "cmd"

\* the statement of start_worker that follows a successful step
StartWorkerNext(step) ==
    CASE step = "clone" -> "map"
      [] step = "map" -> "go"
      [] OTHER -> "cmd"

\* start_worker: UnixStream::pair, then S::clone of worker_main; an error is
\* returned to zygote_main, which returns it
ZygoteSpawn ==
    /\ zy.pc = "spawn"
    /\ \E outcome \in {"ok", "pair_err", "clone_err"} :
          IF outcome = "ok"
          THEN /\ workers' = Append(workers, NewWorker(zy.task, clone_fds(zy.fds)))
               /\ zy' = [zy EXCEPT !.pc = StartWorkerNext("clone")]
          ELSE /\ workers' = workers
               /\ zy' = ZyExit(zy, "spawn")
    /\ UNCHANGED <<ioVars, ctlVars, sock, raw, sysVars>>

\* start_worker: S::write_mappings for the pid of the new worker
ZygoteWriteMappings ==
    /\ zy.pc = "map"
    /\ \E ok \in BOOLEAN :
          IF ok
          THEN /\ workers' = [workers EXCEPT ![Len(workers)].mapped = TRUE]
               /\ zy' = [zy EXCEPT !.pc = StartWorkerNext("map")]
          ELSE /\ workers' = workers
               /\ zy' = ZyExit(zy, "spawn")
    /\ UNCHANGED <<ioVars, ctlVars, sock, raw, sysVars>>

\* start_worker: host.write_all(&[0x01]), return Ok; the loop goes on
ZygoteProceed ==
    /\ zy.pc = "go"
    /\ workers' = [workers EXCEPT ![Len(workers)].sig = 1]
    /\ zy' = ZyLoop(zy)
    /\ UNCHANGED <<ioVars, ctlVars, sock, raw, sysVars>>

\* ---------------------------------------------------------- protocol: worker

\* worker_main: read_exact of the proceed byte returned, then S::set_ids
WorkerProceed(i) ==
    /\ workers[i].pc = "read"
    /\ workers[i].sig > 0
    /\ \E ok \in BOOLEAN :
          workers' = [workers EXCEPT ![i] =
              IF ok
              THEN [@ EXCEPT !.sig = 0, !.got = TRUE, !.idsSet = TRUE, !.pc = "exec"]
              ELSE [@ EXCEPT !.sig = 0, !.got = TRUE, !.pc = "exited",
                             !.exit = ExitStatus(ResultReport(
                                 [ok |-> FALSE, err |-> [kind |-> "SetId", code |-> 0]]))]]
    /\ UNCHANGED <<ioVars, ctlVars, sock, zy, raw, sysVars>>

\* worker_main: read_exact of the proceed byte returns an error
WorkerReadError(i) ==
    /\ workers[i].pc = "read"
    /\ workers' = [workers EXCEPT ![i] =
          [@ EXCEPT !.pc = "exited",
                    !.exit = ExitStatus(ResultReport(
                        [ok |-> FALSE, err |-> [kind |-> "IO", code |-> 0]]))]]
    /\ UNCHANGED <<ioVars, ctlVars, sock, zy, raw, sysVars>>

\* a worker executes its task again
WorkerDoneAndAgain(w, r, fds) ==
    [w EXCEPT !.execs = w.execs + 1, !.execFds = fds, !.res = r, !.pc = "exec",
              !.exit = ExitStatus(ResultReport(MapErrTask(r)))]

\* the worker after task.execute returned r with the descriptors fds: the
\* clone wrapper exits with the report of worker_main's result
WorkerDone(w, r, fds) ==
    [w EXCEPT !.execs = w.execs + 1, !.execFds = fds, !.res = r, !.pc = "exited",
              !.exit = ExitStatus(ResultReport(MapErrTask(r)))]

BegunExecute == Cardinality({j \in 1..Len(workers) : workers[j].execs > 0})

\* worker_main: task.execute(fds), and the exit of the process
WorkerExecute(i) ==
    /\ workers[i].pc = "exec"
    /\ \E r \in ExecResults :
          workers' = [workers EXCEPT ![i] =
              [WorkerDone(@, r, workers[i].fds) EXCEPT
                  !.execAt = IF workers[i].execAt = 0 THEN BegunExecute + 1
                             ELSE workers[i].execAt]]
    /\ UNCHANGED <<ioVars, ctlVars, sock, zy, raw, sysVars>>

\* ------------------------------------------------------- protocol: test peer

\* what the test peer may send as its p-th send: a command byte without or
\* with a descriptor, or a whole task frame without or with descriptors; the
\* task of a frame names the send and the number of descriptors
RawItems(p) ==
    {[bytes |-> <<b>>, fds |-> <<>>] : b \in {CMD_HELLO, CMD_START, 3}}
    \cup {[bytes |-> <<b>>, fds |-> <<1000 * p + 500>>] : b \in {CMD_HELLO, CMD_START}}
    \cup {[bytes |-> Frame(serialize([ty |-> TaskTy, value |-> 10 * p + n]).bytes),
           fds |-> FdList(1000 * p, n)] : n \in {0, MaxFds}}

\* the peer of zygote_main's socket sends one item
RawSend ==
    /\ phase = "raw"
    /\ raw.sent < MaxRaw
    /\ \E item \in RawItems(raw.sent + 1) :
          sock' = send_fds(sock, item.bytes, item.fds)
    /\ raw' = [raw EXCEPT !.sent = raw.sent + 1]
    /\ UNCHANGED <<ioVars, ctlVars, zy, workers, sysVars>>

\* the peer of zygote_main's socket closes its end
RawClose ==
    /\ phase = "raw"
    /\ phase' = "closed"
    /\ UNCHANGED <<ioVars, calls, lock, written, sock, zy, workers, raw, sysVars>>

\* ------------------------------------------------- protocol: specifications

InitProc ==
    /\ msgs = <<>>
    /\ snd = SndIdle
    /\ q = <<>>
    /\ rcv = RcvIdle
    /\ rcvOut = <<>>
    /\ calls = [i \in 1..MaxCalls |-> CallIdle]
    /\ lock = 0
    /\ sock = <<>>
    /\ written = <<>>
    /\ zy = ZyInit
    /\ workers = <<>>

\* after SandboxProcess::start: the zygote runs zygote_main
Init ==
    /\ InitProc
    /\ phase = "started"
    /\ raw = [sent |-> MaxRaw]
    /\ SysUnused

\* zygote_main on a socket whose other end is a test peer
InitZygote ==
    /\ InitProc
    /\ phase = "raw"
    /\ raw = [sent |-> 0]
    /\ SysUnused

NextProc ==
    \/ ZygoteRecv
    \/ ZygoteRecvError
    \/ ZygoteSpawn
    \/ ZygoteWriteMappings
    \/ ZygoteProceed
    \/ \E i \in 1..Len(workers) : WorkerProceed(i)
    \/ \E i \in 1..Len(workers) : WorkerExecute(i)

Next ==
    \/ Connect
    \/ \E i \in 1..MaxCalls : SpawnLock(i)
    \/ \E i \in 1..MaxCalls : SpawnSendStart(i)
    \/ \E i \in 1..MaxCalls : SpawnSendMessage(i)
    \/ \E i \in 1..MaxCalls : SpawnSendStep(i)
    \/ \E i \in 1..MaxCalls : SpawnCancel(i)
    \/ NextProc

NextZygote ==
    \/ RawSend
    \/ NextProc

\* the controller, its zygote and the workers
Spec == Init /\ [][Next]_vars

\* zygote_main and the workers, driven by a test peer
SpecZygote == InitZygote /\ [][NextZygote]_vars

NextZygoteEof ==
    \/ RawSend
    \/ RawClose
    \/ ZygoteRecv
    \/ ZygoteRecvEof
    \/ ZygoteRecvError

\* the receives of zygote_main, up to start_worker, on a socket whose peer
\* sends and then closes its end
SpecZygoteEof == InitZygote /\ [][NextZygoteEof]_vars

\* the workers a test peer can make zygote_main start: each takes a START
\* byte and a task message
MaxWorkers == MaxRaw \div 2

NextWorker ==
    \/ NextZygote
    \/ \E i \in 1..Len(workers) : WorkerReadError(i)

\* a process that can take a step takes it: the zygote and every worker run
\* on their own; the peer's sends and the errors of reads are not promised
FairProc ==
    /\ WF_vars(ZygoteRecv)
    /\ WF_vars(ZygoteSpawn)
    /\ WF_vars(ZygoteWriteMappings)
    /\ WF_vars(ZygoteProceed)
    /\ \A i \in 1..MaxWorkers : WF_vars(i <= Len(workers) /\ WorkerProceed(i))
    /\ \A i \in 1..MaxWorkers : WF_vars(i <= Len(workers) /\ WorkerExecute(i))

\* zygote_main after the handshake byte, a START byte and the task message
\* of the peer's third send, with n descriptors: start_worker is next
ZyAtSpawn(n) ==
    [ZyInit EXCEPT !.pc = "spawn", !.need = 0, !.fds = FdList(1000 * 3, n),
                   !.task = [ty |-> TaskTy, value |-> 10 * 3 + n], !.blocks = 1,
                   !.first = CMD_HELLO, !.cmd = CMD_START]

\* zygote_main is about to start its first worker
InitWorker ==
    /\ msgs = <<>> /\ snd = SndIdle /\ q = <<>> /\ rcv = RcvIdle /\ rcvOut = <<>>
    /\ calls = [i \in 1..MaxCalls |-> CallIdle]
    /\ lock = 0
    /\ sock = <<>>
    /\ written = <<>>
    /\ workers = <<>>
    /\ phase = "raw"
    /\ raw = [sent |-> 3]
    /\ \E n \in {0, MaxFds} : zy = ZyAtSpawn(n)
    /\ SysUnused

\* start_worker and the workers, every process running
SpecWorker == InitWorker /\ [][NextWorker]_vars /\ FairProc

\* ------------------------------------------------------------ claims: IO

\* no element occurs twice in the sequence s
NoDup(s) == Cardinality(Range(s)) = Len(s)

\* the header of the frame being sent holds the payload length, prefix excluded
HeaderIsPayloadLen ==
    snd.pc = "sending" =>
        /\ Len(snd.frame) >= HEADER_SIZE
        /\ FromNeBytes(Take(snd.frame, HEADER_SIZE)) = Len(snd.frame) - HEADER_SIZE

FdsOnFirstSendOnly ==
    /\ snd.fdOffs \subseteq {0}
    /\ (snd.pc = "sending" /\ snd.off = 0) => snd.fds = msgs[snd.idx].D
    /\ (snd.pc = "sending" /\ snd.off > 0) =>
          /\ snd.fds = <<>>
          /\ msgs[snd.idx].D # <<>> => snd.fdOffs = {0}
    /\ \A i \in 1..Len(rcvOut) :
          NoDup(rcvOut[i].fds) /\ Range(rcvOut[i].fds) \subseteq Range(msgs[i].D)

HistBytes(h, n) == [j \in 1..n |-> h[j].val]

\* h is a concatenation of whole blocks, each a START byte followed by one
\* complete framed message with all its bytes written by one call, followed at
\* most by the beginning of a block of the call that holds the mutex
RECURSIVE BlocksThenPartial(_, _)
BlocksThenPartial(h, holder) ==
    IF h = <<>> THEN TRUE
    ELSE /\ h[1].val = CMD_START
         /\ LET n == IF Len(h) >= 1 + HEADER_SIZE
                     THEN FromNeBytes(Tail(HistBytes(h, 1 + HEADER_SIZE)))
                     ELSE LenTooLarge
                end == 1 + HEADER_SIZE + n
            IN IF Len(h) >= end
               THEN /\ \A j \in 1..end : h[j].own = h[1].own
                    /\ BlocksThenPartial(Drop(h, end), holder)
               ELSE /\ holder # 0
                    /\ \A j \in 1..Len(h) : h[j].own = holder

\* C1: the bytes written to the control socket after the HELLO byte are, at
\* every moment, a concatenation of whole START+message blocks of single
\* calls, followed only by the block in progress of the call that holds the
\* mutex; bytes of two calls are never interleaved.
C1_WholeBlocks ==
    phase = "connected" => BlocksThenPartial(Tail(written), lock)

\* the descriptors the test peer attached to the frame of the task t
FdsOfTask(t) == FdList(1000 * (t.value \div 10), t.value % 10)

\* C4: every worker holds the task and the descriptors that one spawn_async
\* call passed, its execute gets exactly those descriptors, and no two workers
\* hold the task and descriptors of the same call.
C4_SpawnAsyncFds ==
    /\ \A i \in 1..Len(workers) :
          \E c \in 1..MaxCalls :
              /\ calls[c].pc # "idle"
              /\ calls[c].task = workers[i].task
              /\ calls[c].fds = workers[i].fds
              /\ workers[i].execs > 0 => workers[i].execFds = calls[c].fds
    /\ \A i, j \in 1..Len(workers) : i # j => workers[i].task # workers[j].task

\* C4 while every call so far has written whole blocks only (none was
\* cancelled, none failed to serialize its task): the same statement
C4_SpawnAsyncFdsWholeBlocks ==
    (\A c \in 1..MaxCalls : calls[c].pc \notin {"cancelled", "err"}) => C4_SpawnAsyncFds

\* C4 at the zygote, for whole frames of a test peer: the descriptors sent
\* with a task message are the descriptors of the worker spawned for that task
\* and of its execute call, no descriptor is held by two workers, and the
\* descriptors that came with the HELLO or a START byte reach no worker
C4_FdsReachTheirWorker ==
    /\ \A i \in 1..Len(workers) :
          /\ workers[i].fds = FdsOfTask(workers[i].task)
          /\ workers[i].execs > 0 => workers[i].execFds = FdsOfTask(workers[i].task)
    /\ \A i, j \in 1..Len(workers) :
          i # j => Range(workers[i].fds) \cap Range(workers[j].fds) = {}

\* C4 at the zygote: a worker executed with the descriptors of its task after
\* the zygote had thrown away descriptors that came with command bytes
C4_Witness ==
    /\ zy.dropped > 0
    /\ \E i \in 1..Len(workers) :
          workers[i].execs > 0 /\ Len(workers[i].execFds) = MaxFds

\* C5: a worker has called set_ids or execute only after it read the proceed
\* byte, and the proceed byte of a worker was written only after
\* write_mappings for it returned Ok.
C5_IdsAfterMappings ==
    \A i \in 1..Len(workers) :
        /\ (workers[i].idsSet \/ workers[i].execs > 0) => workers[i].got
        /\ (workers[i].sig > 0 \/ workers[i].got) => workers[i].mapped

\* C5 witness: a worker has set its ids and executed
C5_Witness ==
    \E i \in 1..Len(workers) :
        workers[i].idsSet /\ workers[i].execs > 0 /\ workers[i].mapped

\* C6: there are no more workers than task messages received, each worker is
\* the one cloned for one message, no worker executes more than once, a worker
\* executes only after its start succeeded, and a worker whose start succeeded
\* and which has ended executed exactly once.
C6_ExecuteOncePerBlock ==
    /\ Len(workers) <= zy.blocks
    /\ \A i \in 1..Len(workers) :
          /\ workers[i].execs <= 1
          /\ workers[i].execs = 1 => workers[i].mapped /\ workers[i].got /\ workers[i].idsSet
          /\ (workers[i].pc = "exited" /\ workers[i].idsSet) => workers[i].execs = 1

\* C6 witness: two workers, each of which executed once
C6_Witness ==
    /\ Len(workers) = 2
    /\ \A i \in 1..2 : workers[i].execs = 1 /\ workers[i].pc = "exited"

\* C7: the exit status of a worker whose execute returned Err(e) is the
\* report of e modulo 256, and it is 0 when execute returned Ok.
C7_ExitCodePreserved ==
    \A i \in 1..Len(workers) :
        (workers[i].pc = "exited" /\ workers[i].execs > 0)
        => workers[i].exit = IF workers[i].res.ok THEN 0 ELSE workers[i].res.code % 256

\* C7 witness: a worker whose execute reported 256 has ended with status 0
\* and one whose execute reported -1 has ended with status 255
C7_Witness ==
    /\ \E i \in 1..Len(workers) :
          /\ workers[i].pc = "exited" /\ workers[i].execs > 0
          /\ ~workers[i].res.ok /\ workers[i].res.code = 256 /\ workers[i].exit = 0
    /\ \E i \in 1..Len(workers) :
          /\ workers[i].pc = "exited" /\ workers[i].execs > 0
          /\ ~workers[i].res.ok /\ workers[i].res.code = 0 - 1 /\ workers[i].exit = 255

\* C8: once the command loop has read a command byte other than START, the
\* zygote has exited with a non-zero status, and there is no worker beyond
\* those of the task messages received before.
C8_UnknownCommandFatal ==
    (zy.cmd # 0 - 1 /\ zy.cmd # CMD_START)
    => /\ zy.pc = "exited"
       /\ zy.exit # 0
       /\ zy.why = "protocol"
       /\ Len(workers) <= zy.blocks

\* C8 witness: after one worker was spawned, a second HELLO ended the zygote
C8_Witness ==
    /\ zy.cmd = CMD_HELLO
    /\ zy.pc = "exited"
    /\ zy.exit = 255
    /\ Len(workers) = 1

\* C9: the zygote has ended only because of a failure of the control socket
\* or a protocol violation, never because spawning a worker failed.
C9_SpawnFailureIsolated ==
    zy.pc = "exited" => zy.why \in {"socket", "protocol", "message"}

\* C10: when the first byte read is not HELLO, the zygote has ended and has
\* processed no command.
C10_FirstByteMustBeHello ==
    (zy.first # 0 - 1 /\ zy.first # CMD_HELLO)
    => /\ zy.pc = "exited"
       /\ zy.cmd = 0 - 1
       /\ zy.blocks = 0
       /\ workers = <<>>

\* C11: every worker was cloned with NEWUSER, NEWPID and NEWNS, and with
\* NEWNET exactly when the options of its task have NETWORK_ISOLATION set.
C11_CloneFlags ==
    \A i \in 1..Len(workers) :
        /\ {"NEWUSER", "NEWPID", "NEWNS"} \subseteq workers[i].flags
        /\ "NEWNET" \in workers[i].flags <=> workers[i].opts.network_isolation

\* the bytes call c has written to the control socket
OwnBytes(c) ==
    LET RECURSIVE Sel(_)
        Sel(h) == IF h = <<>> THEN <<>>
                  ELSE IF h[1].own = c THEN <<h[1].val>> \o Sel(Tail(h)) ELSE Sel(Tail(h))
    IN Sel(written)

\* the block of call c: the START byte and the framed task
BlockOf(c) == <<CMD_START>> \o Frame(serialize(calls[c].task).bytes)

\* C12: a call has returned Ok exactly when its START byte and its whole
\* framed message are written, whatever the zygote has done: a call that has
\* returned Ok has written its whole block, and a call still running has not.
C12_OkWhenWritten ==
    \A c \in 1..MaxCalls :
        /\ calls[c].pc = "ok" => OwnBytes(c) = BlockOf(c)
        /\ calls[c].pc \in {"start", "msg", "sending"} => Len(OwnBytes(c)) < Len(BlockOf(c))

\* C12 witness: a call has returned Ok while the zygote has not read a byte
\* of it, and another has returned Ok for a task whose worker is never
\* started, the zygote having ended before
C12_Witness ==
    /\ calls[1].pc = "ok" /\ calls[2].pc = "ok"
    /\ zy.pc = "exited" /\ zy.blocks = 0 /\ workers = <<>>
    /\ sock # <<>>

\* C13: of two calls that returned Ok, the worker of the one that returned
\* first began execute before the worker of the other did.
C13_ExecuteInReturnOrder ==
    \A a, b \in 1..MaxCalls : \A i, j \in 1..Len(workers) :
        ( /\ calls[a].pc = "ok" /\ calls[b].pc = "ok" /\ calls[a].ret < calls[b].ret
          /\ workers[i].task = calls[a].task /\ workers[j].task = calls[b].task
          /\ workers[i].execs > 0 /\ workers[j].execs > 0 )
        => workers[i].execAt < workers[j].execAt

\* C37: once a spawn_async call has returned an error or was cancelled and
\* no call holds the mutex, the bytes written to the control socket after the
\* HELLO byte are whole START+message blocks only.
C37_WholeBlocksAfterFailure ==
    ( /\ phase = "connected" /\ lock = 0
      /\ \E c \in 1..MaxCalls : calls[c].pc \in {"err", "cancelled"} )
    => BlocksThenPartial(Tail(written), 0)

\* C38: recv_exact ends: it goes on only while bytes are missing, and a
\* receive that returns no byte (the peer has closed the socket) makes it
\* return an error, so zygote_main ends.
C38_RecvExactEndsOnEof ==
    /\ zy.pc \in {"hello", "cmd", "hdr", "body"} => zy.need > 0
    /\ zy.eofs > 0 => zy.pc = "exited" /\ zy.why = "socket"

\* the bytes queued on the control socket, in order
RECURSIVE SockBytes(_)
SockBytes(queue) ==
    IF queue = <<>> THEN <<>> ELSE Head(queue).data \o SockBytes(Tail(queue))

\* C39: every receive of a recv_exact for n bytes takes from the head of the
\* stream at least one byte and at most the bytes still missing, leaves the
\* rest of the stream as it was, and appends the bytes it took, in order, to
\* the buffer; the recv_exact returns with the receive that brings the last
\* missing byte, so after the one-byte command read the stream begins with
\* the header of the message, and after the message with the next command.
C39_ExactlyRequested ==
    /\ [](/\ zy.pc \in {"hello", "cmd"} => zy.need = 1 /\ zy.buf = <<>>
          /\ zy.pc = "hdr" => zy.need > 0 /\ Len(zy.buf) + zy.need = HEADER_SIZE
          /\ zy.pc = "body" => zy.need > 0)
    /\ [][sock' # sock /\ zy' # zy =>
             LET old == SockBytes(sock)
                 taken == Len(old) - Len(SockBytes(sock')) IN
             /\ 1 <= taken /\ taken <= zy.need
             /\ SockBytes(sock') = Drop(old, taken)
             /\ taken < zy.need =>
                   /\ zy'.pc = zy.pc /\ zy'.need = zy.need - taken
                   /\ zy.pc \in {"hdr", "body"} => zy'.buf = zy.buf \o Take(old, taken)
             /\ (taken = zy.need /\ zy.pc = "cmd" /\ zy'.pc = "hdr") =>
                   zy'.cmd = old[1] /\ zy'.buf = <<>> /\ zy'.need = HEADER_SIZE
             /\ (taken = zy.need /\ zy.pc = "hdr" /\ zy'.pc = "body") =>
                   zy'.need = FromNeBytes(zy.buf \o Take(old, taken))
             /\ (taken = zy.need /\ zy.pc = "body" /\ zy'.pc = "spawn") =>
                   serialize(zy'.task).bytes = zy.buf \o Take(old, taken)]_vars

\* C39 witness: zygote_main has read a command byte, a task message and the
\* next command byte, each out of a stream that held more, and the stream
\* now begins with the frame of the second task
C39_Witness ==
    /\ zy.pc = "hdr" /\ zy.buf = <<>> /\ zy.blocks = 1
    /\ sock # <<>>
    /\ \E n \in {0, MaxFds} :
          SockBytes(sock) = Frame(serialize([ty |-> TaskTy, value |-> 10 * 5 + n]).bytes)

\* ------------------------------------------- ChildProcess: handle and drop

CHILD_DROP_WAIT_MILLIS == 4500

CHILD_KILL_WAIT_MILLIS == 500

\* the sleep between two polls of try_drop_impl
POLL_SLEEP_MILLIS == 15

\* the clock advances in steps of TickMillis
TickMillis == 500

\* the most SandboxController::clone calls of one run
MaxClones == 2

\* the parts of the state that only the IO and protocol specifications use
ProtoUnused ==
    /\ msgs = <<>>
    /\ snd = SndIdle
    /\ q = <<>>
    /\ rcv = RcvIdle
    /\ rcvOut = <<>>
    /\ phase = "none"
    /\ calls = <<>>
    /\ lock = 0
    /\ sock = <<>>
    /\ written = <<>>
    /\ zy = [pc |-> "none"]
    /\ workers = <<>>
    /\ raw = [sent |-> 0]

protoVars == <<ioVars, ctlVars, procVars, raw>>

\* how the child process reacts to signals: "term" dies of SIGTERM (the
\* default disposition) and of SIGKILL, "ignore" handles SIGTERM and dies of
\* SIGKILL only, "stuck" does not die while the handle is dropped
ChildKinds == {"term", "ignore", "stuck"}

\* waitpid(pid, WNOHANG | __WALL) on a child that is "alive", a "zombie" or
\* already "reaped" (ECHILD): the process state after it and poll's result
poll(p) ==
    [proc |-> IF p = "zombie" THEN "reaped" ELSE p,
     res |-> IF p = "alive" THEN "WouldBlock" ELSE "Ok"]

\* a take that leaves the pid in the handle
takeKeepsPid(cell) == [ret |-> cell, cell |-> cell]

\* Option::take on the handle's cell: what is returned and what is left
take(cell) == [ret |-> cell, cell |-> "none"]

\* a ChildProcess that holds the pid of p, owned by own
ChildOf(own, kind, p) ==
    [own |-> own, handles |-> 0, cloned |-> 0,
     stream |-> IF own = "process" THEN "open" ELSE "na",
     cell |-> "some", released |-> 0, pc |-> "live",
     proc |-> p, kind |-> kind, sigs |-> <<>>, waited |-> FALSE,
     now |-> 0, end |-> 0, wake |-> 0,
     died |-> IF p = "alive" THEN "no" ELSE "before", atDrop |-> "na",
     ret |-> "none", log |-> {}, raised |-> FALSE]

\* either SandboxProcess::start has returned (the zygote runs with the
\* default signal dispositions), or ChildProcess::new wraps the pid of a
\* child that runs or that its parent has already waited for
InitChild ==
    /\ ProtoUnused
    /\ cln = [pc |-> "none"]
    /\ pool = [pc |-> "none"]
    /\ maps = [pc |-> "none"]
    /\ fs = [pc |-> "none"]
    /\ \/ child = ChildOf("process", "term", "alive")
       \/ \E k \in ChildKinds, p \in {"alive", "reaped"} : child = ChildOf("handle", k, p)

\* kill(2) and waitpid(2) can fail (EPERM, ...) for a pid that was handed to
\* ChildProcess::new; the zygote is a child of the caller with the caller's
\* credentials, for which they report no error but ESRCH and ECHILD
SyscallsMayFail(c) == c.own = "handle"

\* a drop that hands the error of try_drop_impl to its caller
dropRaises(c, res) ==
    [c EXCEPT !.pc = "done", !.ret = res, !.raised = (res = "Err")]

\* Drop::drop after try_drop_impl returned res: an error is logged as a
\* warning, nothing reaches the caller
drop(c, res) ==
    [c EXCEPT !.pc = "done", !.ret = res,
              !.log = IF res = "Err" THEN c.log \cup {"failed to drop"} ELSE c.log]

\* Drop for ChildProcess is entered
DropGuard(c) == [c EXCEPT !.pc = "drop", !.atDrop = c.proc]

\* SandboxProcess::connect returns the first SandboxController
ProcConnect ==
    /\ child.pc = "live" /\ child.own = "process"
    /\ child' = [child EXCEPT !.own = "controller", !.handles = 1]
    /\ UNCHANGED <<protoVars, cln, pool, maps, fs>>

\* SandboxProcess::connect fails: self.stream or the async stream is dropped,
\* then self.proc
ProcConnectErr ==
    /\ child.pc = "live" /\ child.own = "process"
    /\ child' = [DropGuard(child) EXCEPT !.stream = "closed"]
    /\ UNCHANGED <<protoVars, cln, pool, maps, fs>>

\* an unconnected SandboxProcess is dropped: stream, then proc
ProcDrop ==
    /\ child.pc = "live" /\ child.own = "process"
    /\ child' = [DropGuard(child) EXCEPT !.stream = "closed"]
    /\ UNCHANGED <<protoVars, cln, pool, maps, fs>>

\* SandboxController::clone: one more Arc of the State
ControllerClone ==
    /\ child.pc = "live" /\ child.own = "controller"
    /\ child.cloned < MaxClones
    /\ child' = [child EXCEPT !.handles = child.handles + 1, !.cloned = child.cloned + 1]
    /\ UNCHANGED <<protoVars, cln, pool, maps, fs>>

\* a drop of a clone that releases the State whatever other clones live
ControllerDropAnyClone ==
    /\ child.pc = "live" /\ child.own = "controller"
    /\ child' = [DropGuard(child) EXCEPT !.handles = child.handles - 1, !.stream = "closed"]
    /\ UNCHANGED <<protoVars, cln, pool, maps, fs>>

\* a SandboxController is dropped; the drop of the last Arc drops the State:
\* its stream, then its _proc
ControllerDrop ==
    /\ child.pc = "live" /\ child.own = "controller"
    /\ IF child.handles = 1
          THEN child' = [DropGuard(child) EXCEPT !.handles = 0, !.stream = "closed"]
          ELSE child' = [child EXCEPT !.handles = child.handles - 1]
    /\ UNCHANGED <<protoVars, cln, pool, maps, fs>>

\* ChildProcess::take
HandleTake ==
    /\ child.pc = "live" /\ child.own = "handle"
    /\ LET t == take(child.cell) IN
          child' = [child EXCEPT !.cell = t.cell,
                       !.released = child.released + (IF t.ret = "some" THEN 1 ELSE 0)]
    /\ UNCHANGED <<protoVars, cln, pool, maps, fs>>

\* ChildProcess::forget: take().unwrap(), and self is dropped on return
HandleForget ==
    /\ child.pc = "live" /\ child.own = "handle"
    /\ child.cell = "some"
    /\ LET t == take(child.cell) IN
          child' = [DropGuard(child) EXCEPT !.cell = t.cell,
                       !.released = child.released + (IF t.ret = "some" THEN 1 ELSE 0)]
    /\ UNCHANGED <<protoVars, cln, pool, maps, fs>>

\* a ChildProcess goes out of scope
HandleDrop ==
    /\ child.pc = "live" /\ child.own = "handle"
    /\ child' = DropGuard(child)
    /\ UNCHANGED <<protoVars, cln, pool, maps, fs>>

\* try_drop_impl: without a pid it returns Ok at once
DropBegin ==
    /\ child.pc = "drop"
    /\ child' = IF child.cell = "none" THEN drop(child, "Ok")
                                       ELSE [child EXCEPT !.pc = "kill1"]
    /\ UNCHANGED <<protoVars, cln, pool, maps, fs>>

\* kill: the kill(2) call with SIGTERM, then with SIGKILL. ESRCH counts as
\* exited, any other error is returned; the result of the SIGKILL call is not
\* looked at unless it is an error
KillSignal ==
    /\ child.pc \in {"kill1", "kill2"}
    /\ LET sig == IF child.pc = "kill1" THEN "SIGTERM" ELSE "SIGKILL"
           c == [child EXCEPT !.sigs = Append(child.sigs, sig)] IN
          IF child.proc # "reaped"
             THEN \/ child' = [c EXCEPT !.pc = IF child.pc = "kill1" THEN "kpoll1"
                                                                      ELSE "kpoll2"]
                  \/ SyscallsMayFail(child) /\ child' = drop(child, "Err")
             ELSE child' = IF child.pc = "kill1"
                              THEN drop(c, "Ok")
                              ELSE [c EXCEPT !.pc = "poll2",
                                       !.end = child.now + CHILD_KILL_WAIT_MILLIS]
    /\ UNCHANGED <<protoVars, cln, pool, maps, fs>>

\* kill: the poll after a kill(2) that succeeded; then the end of the wait
\* is computed. An error of waitpid other than ECHILD is returned
KillPoll ==
    /\ child.pc \in {"kpoll1", "kpoll2"}
    /\ LET r == poll(child.proc)
           c == [child EXCEPT !.proc = r.proc, !.waited = TRUE] IN
          \/ child' = IF child.pc = "kpoll1"
                         THEN IF r.res = "Ok"
                                 THEN drop(c, "Ok")
                                 ELSE [c EXCEPT !.pc = "poll1",
                                          !.end = child.now + CHILD_DROP_WAIT_MILLIS]
                         ELSE [c EXCEPT !.pc = "poll2",
                                  !.end = child.now + CHILD_KILL_WAIT_MILLIS]
          \/ SyscallsMayFail(child) /\ child' = drop(child, "Err")
    /\ UNCHANGED <<protoVars, cln, pool, maps, fs>>

\* the poll of a wait loop; an error of waitpid other than ECHILD is returned
LoopPoll ==
    /\ child.pc \in {"poll1", "poll2"}
    /\ LET r == poll(child.proc)
           c == [child EXCEPT !.proc = r.proc, !.waited = TRUE] IN
          \/ child' = IF r.res = "Ok"
                         THEN drop(c, "Ok")
                         ELSE [c EXCEPT !.pc = IF child.pc = "poll1" THEN "clock1"
                                                                     ELSE "clock2"]
          \/ SyscallsMayFail(child) /\ child' = drop(child, "Err")
    /\ UNCHANGED <<protoVars, cln, pool, maps, fs>>

\* a wait loop that is left at its first WouldBlock
LoopClockNoWait ==
    /\ child.pc \in {"clock1", "clock2"}
    /\ child' = IF child.pc = "clock1"
                   THEN [child EXCEPT !.pc = "kill2",
                            !.log = child.log \cup {"sending SIGKILL"}]
                   ELSE drop([child EXCEPT !.log = child.log \cup {"not responded"}], "Ok")
    /\ UNCHANGED <<protoVars, cln, pool, maps, fs>>

\* the match arm of a wait loop after WouldBlock: `end > Instant::now()`
\* sleeps, otherwise the loop is left with a warning: SIGKILL is next, or
\* try_drop_impl gives up and returns Ok
LoopClock ==
    /\ child.pc \in {"clock1", "clock2"}
    /\ child' = IF child.end > child.now
                   THEN [child EXCEPT !.pc = IF child.pc = "clock1" THEN "sleep1" ELSE "sleep2",
                            !.wake = child.now + POLL_SLEEP_MILLIS]
                   ELSE IF child.pc = "clock1"
                           THEN [child EXCEPT !.pc = "kill2",
                                    !.log = child.log \cup {"sending SIGKILL"}]
                           ELSE drop([child EXCEPT !.log = child.log \cup {"not responded"}],
                                     "Ok")
    /\ UNCHANGED <<protoVars, cln, pool, maps, fs>>

\* thread::sleep returns
LoopWake ==
    /\ child.pc \in {"sleep1", "sleep2"}
    /\ child.now >= child.wake
    /\ child' = [child EXCEPT !.pc = IF child.pc = "sleep1" THEN "poll1" ELSE "poll2"]
    /\ UNCHANGED <<protoVars, cln, pool, maps, fs>>

\* time passes while try_drop_impl waits (at most one step past the end of
\* the current wait)
Tick ==
    /\ child.pc \in {"poll1", "clock1", "sleep1", "kill2", "kpoll2", "poll2", "clock2", "sleep2"}
    /\ child.now < child.end + TickMillis
    /\ child' = [child EXCEPT !.now = child.now + TickMillis]
    /\ UNCHANGED <<protoVars, cln, pool, maps, fs>>

\* the child is inside the drop wait (from SIGTERM), or inside the kill wait
\* (from SIGKILL)
InWait(c, n) ==
    \/ c.pc = "kpoll" \o n
    \/ c.pc \in {"poll" \o n, "clock" \o n, "sleep" \o n} /\ c.now < c.end

\* the child terminates of a signal it was sent
ChildExit ==
    /\ child.proc = "alive"
    /\ \/ child.kind = "term" /\ "SIGTERM" \in Range(child.sigs)
       \/ child.kind \in {"term", "ignore"} /\ "SIGKILL" \in Range(child.sigs)
    /\ child' = [child EXCEPT !.proc = "zombie",
                    !.died = IF "SIGKILL" \notin Range(child.sigs)
                                THEN IF InWait(child, "1") THEN "termwin" ELSE "late"
                                ELSE IF InWait(child, "2") THEN "killwin" ELSE "late"]
    /\ UNCHANGED <<protoVars, cln, pool, maps, fs>>

\* the child exits by itself while its handle lives
ChildExitSelf ==
    /\ child.pc = "live" /\ child.proc = "alive"
    /\ child' = [child EXCEPT !.proc = "zombie", !.died = "before"]
    /\ UNCHANGED <<protoVars, cln, pool, maps, fs>>

NextChild ==
    \/ ProcConnect
    \/ ProcConnectErr
    \/ ProcDrop
    \/ ControllerClone
    \/ ControllerDrop
    \/ HandleTake
    \/ HandleForget
    \/ HandleDrop
    \/ DropBegin
    \/ KillSignal
    \/ KillPoll
    \/ LoopPoll
    \/ LoopClock
    \/ LoopWake
    \/ Tick
    \/ ChildExit
    \/ ChildExitSelf

\* a ChildProcess, its owners and its child process
SpecChild == InitChild /\ [][NextChild]_vars

\* the thread that drops the handle runs, and the clock advances
FairDrop ==
    /\ WF_vars(DropBegin)
    /\ WF_vars(KillSignal)
    /\ WF_vars(KillPoll)
    /\ WF_vars(LoopPoll)
    /\ WF_vars(LoopClock)
    /\ WF_vars(LoopWake)
    /\ WF_vars(Tick)

\* a ChildProcess whose drop, once entered, keeps running
SpecChildFair == InitChild /\ [][NextChild]_vars /\ FairDrop

\* worker i failed before execute: it exited without having set its ids
PreExecuteFailed(i) ==
    i <= Len(workers) /\ workers[i].pc = "exited" /\ ~workers[i].idsSet

\* worker i waits for a proceed byte that nobody will write: start_worker
\* returned an error after the clone, and zygote_main has exited
ProceedNeverDelivered(i) ==
    /\ i <= Len(workers)
    /\ workers[i].pc = "read" /\ workers[i].sig = 0
    /\ zy.pc = "exited"

\* C27: a worker whose pre-execute step fails does not call task.execute and
\* exits with status 255 (code -1); a worker whose proceed byte is never
\* delivered because write_mappings failed or the zygote terminated
\* eventually exits that way, it does not block forever
C27_PreExecuteFailureExits ==
    \A i \in 1..MaxWorkers :
        /\ [](PreExecuteFailed(i) => workers[i].execs = 0 /\ workers[i].exit = 255)
        /\ ProceedNeverDelivered(i) ~> PreExecuteFailed(i)

\* -------------------------------------------------- claims: ChildProcess

\* the handle guards the zygote
OwnsZygote == child.own \in {"process", "controller"}

C15_ReapedWhenDropReturns ==
    ( /\ child.pc = "done" /\ child.cell = "some"
      /\ \/ child.kind = "term" /\ child.died = "termwin"
         \/ child.kind = "ignore" /\ child.died = "killwin" )
    => child.proc = "reaped"

\* C16: once the pid is released by take or forget, the handle signals
\* nothing and waits for nothing, also when it is dropped afterwards, and the
\* pid is released at most once.
C16_ForgetDoesNotSignal ==
    /\ child.released <= 1
    /\ child.released > 0 => child.sigs = <<>> /\ ~child.waited /\ child.cell = "none"

\* C16 witness: the pid was released, the handle has been dropped and the
\* drop has returned, and the child still runs
C16_Witness ==
    /\ child.own = "handle" /\ child.released = 1
    /\ child.pc = "done" /\ child.proc = "alive"

\* C17: the drop of a handle whose child had already exited issues no kill.
C17_NoKillAfterExit ==
    child.atDrop \in {"zombie", "reaped"} => child.sigs = <<>>

C29_DropReturns ==
    /\ [](child.pc = "done" =>
            /\ ~child.raised
            /\ child.ret \in {"Ok", "Err"}
            /\ child.now < CHILD_DROP_WAIT_MILLIS + CHILD_KILL_WAIT_MILLIS + 4 * TickMillis
            /\ child.ret = "Err" => "failed to drop" \in child.log
            /\ child.ret = "Ok" /\ child.cell = "some" /\ child.proc # "reaped" =>
                  "not responded" \in child.log)
    /\ child.pc = "drop" ~> child.pc = "done"

\* C29 witness: the drop of a child that never exits has returned Ok after
\* both waits, with both warnings
C29_Witness ==
    /\ child.pc = "done" /\ child.kind = "stuck" /\ child.proc = "alive"
    /\ child.ret = "Ok" /\ child.sigs = <<"SIGTERM", "SIGKILL">>
    /\ child.now >= CHILD_DROP_WAIT_MILLIS + CHILD_KILL_WAIT_MILLIS
    /\ child.log = {"sending SIGKILL", "not responded"}

\* ----------------------------------------------------- clone: the wrapper

\* the flag sets clone is called with
CloneFlagSets ==
    { {}, {"PARENT"}, {"NEWPID", "NEWNS", "NEWUSER"},
      {"TEST_FALLBACK"}, {"NEWUSER", "TEST_FALLBACK"} }

\* what the callback's result reports
CallbackReports == {-257, -1, 0, 3, 256}

\* how clone3(2), mmap/mprotect and clone(2) may end
Clone3Outcomes == {"child", "ENOSYS", "EPERM"}

StackOutcomes == {"mapped", "ENOMEM"}

Clone2Outcomes == {"child", "EAGAIN"}

\* the exit signal: 0 with PARENT, SIGCHLD otherwise
exit_signal(flags) == IF "PARENT" \in flags THEN "none" ELSE "SIGCHLD"

\* a clone_main that loses the report
clone_mainReturnsZero(r) == r - r

\* clone_main: the callback's report is the return value of the child's
\* start function
clone_main(r) == r

\* a fallback that is handed the flags as clone got them
fallback_flagsAsGiven(flags) == flags

\* the flags clone hands to clone_fallback:
\* flags.difference(CloneFlags::TEST_FALLBACK)
fallback_flags(flags) == flags \ {"TEST_FALLBACK"}

\* a call clone(cb, flags) where cb returns a value that reports r
CloneCall(flags, r) ==
    [pc |-> "clone3", flags |-> flags, r |-> r, path |-> "none", ret |-> "none",
     proc |-> "none", exit_signal |-> exit_signal(flags),
     res3 |-> "none", fallback |-> <<>>, kernel |-> <<>>,
     cbParent |-> 0, cbChild |-> 0, returned |-> FALSE, status |-> 0 - 1]

InitClone ==
    /\ ProtoUnused
    /\ child = [pc |-> "none"]
    /\ pool = [pc |-> "none"]
    /\ maps = [pc |-> "none"]
    /\ fs = [pc |-> "none"]
    /\ \E f \in CloneFlagSets, r \in CallbackReports : cln = CloneCall(f, r)

\* clone3: ENOSYS at once with TEST_FALLBACK, else the system call. In the
\* parent: a pid, or the error. clone: only ENOSYS leads to clone_fallback,
\* with TEST_FALLBACK removed; any other error is the CloneError
Clone3 ==
    /\ cln.pc = "clone3"
    /\ \E o \in Clone3Outcomes :
          /\ "TEST_FALLBACK" \in cln.flags => o = "ENOSYS"
          /\ LET c == [cln EXCEPT !.res3 = o,
                          !.kernel = IF "TEST_FALLBACK" \in cln.flags THEN cln.kernel
                                     ELSE Append(cln.kernel,
                                                 [call |-> "clone3", flags |-> cln.flags])]
             IN cln' = CASE o = "child" ->
                              [c EXCEPT !.pc = "returned", !.ret = "Ok", !.path = "clone3",
                                        !.proc = "running"]
                         [] o = "ENOSYS" ->
                              [c EXCEPT !.pc = "stack",
                                        !.fallback = <<fallback_flags(cln.flags)>>]
                         [] OTHER ->
                              [c EXCEPT !.pc = "returned", !.ret = "Err"]
    /\ UNCHANGED <<protoVars, child, pool, maps, fs>>

\* clone_fallback: the stack is mapped and its guard page protected, or the
\* error is returned
CloneFallbackStack ==
    /\ cln.pc = "stack"
    /\ \E o \in StackOutcomes :
          cln' = IF o = "mapped"
                    THEN [cln EXCEPT !.pc = "clone2"]
                    ELSE [cln EXCEPT !.pc = "returned", !.ret = "Err"]
    /\ UNCHANGED <<protoVars, child, pool, maps, fs>>

\* clone_fallback: libc::clone(clone_main, ...) in the parent
CloneFallbackClone ==
    /\ cln.pc = "clone2"
    /\ \E o \in Clone2Outcomes :
          LET c == [cln EXCEPT !.kernel = Append(cln.kernel,
                                   [call |-> "clone", flags |-> cln.fallback[1]])]
          IN cln' = IF o = "child"
                       THEN [c EXCEPT !.pc = "returned", !.ret = "Ok", !.path = "fallback",
                                      !.proc = "running"]
                       ELSE [c EXCEPT !.pc = "returned", !.ret = "Err"]
    /\ UNCHANGED <<protoVars, child, pool, maps, fs>>

\* a child that comes back from clone3 as the parent does, with a pid of 0
CloneChildReturns ==
    /\ cln.proc = "running"
    /\ cln' = [cln EXCEPT !.proc = "exited", !.returned = TRUE, !.status = 0]
    /\ UNCHANGED <<protoVars, child, pool, maps, fs>>

\* the child: after clone3 it runs std::process::exit(cb().report()); after
\* clone(2) it runs clone_main and exits with what that returns
CloneChildRun ==
    /\ cln.proc = "running"
    /\ cln' = [cln EXCEPT !.proc = "exited", !.cbChild = cln.cbChild + 1,
                  !.status = IF cln.path = "clone3"
                                THEN ExitStatus(cln.r)
                                ELSE ExitStatus(clone_main(cln.r))]
    /\ UNCHANGED <<protoVars, child, pool, maps, fs>>

NextClone ==
    \/ Clone3
    \/ CloneFallbackStack
    \/ CloneFallbackClone
    \/ CloneChildRun

\* one call of clone and the child it creates
SpecClone == InitClone /\ [][NextClone]_vars

\* --------------------------------------------------------- claims: clone

\* C18: on both paths the child exits with the callback's report modulo 256:
\* a status in 0..255 that differs from the report by a multiple of 256, 255
\* for a report of -1 and 0 for a report of 0.
C18_ExitStatusIsReportMod256 ==
    cln.proc = "exited" =>
        /\ cln.status \in 0..255
        /\ \E k \in -2..2 : cln.r = cln.status + 256 * k
        /\ cln.r = 0 - 1 => cln.status = 255
        /\ cln.r = 0 => cln.status = 0

\* C18 witness: a child made by the clone(2) fallback has exited with 255,
\* its callback having reported -1
C18_Witness ==
    /\ cln.proc = "exited" /\ cln.path = "fallback"
    /\ cln.r = 0 - 1 /\ cln.status = 255

\* C19: clone returns Ok with a child or an error without one; the callback
\* never runs in the caller; in a child it runs once, the child exits and
\* does not come back into the caller's code; on an error it never runs.
C19_OkChildOrErrorNoChild ==
    /\ cln.pc = "returned" <=> cln.ret \in {"Ok", "Err"}
    /\ cln.cbParent = 0
    /\ cln.ret = "Ok" <=> cln.proc # "none"
    /\ cln.ret = "Err" => cln.cbChild = 0
    /\ ~cln.returned
    /\ cln.proc = "running" => cln.cbChild = 0
    /\ cln.proc = "exited" => cln.cbChild = 1
    /\ cln.path = "clone3" => "TEST_FALLBACK" \notin cln.flags

\* C19 witness: with TEST_FALLBACK and a namespace flag, clone returned Ok
\* from the fallback and the child ran the callback once and exited
C19_Witness ==
    /\ cln.ret = "Ok" /\ cln.path = "fallback" /\ "NEWUSER" \in cln.flags
    /\ cln.proc = "exited" /\ cln.cbChild = 1

\* ------------------------------------------------------ mem: BUFFER_POOL

MB == 131072

MAX_TOTAL_BUFFERS == 128 * MB

MAX_SINGLE_BUFFER == 16 * MB

DEFAULT_BUFFER_LEN == 16384

\* with_max_search(16)
MAX_SEARCH == 16

\* the entries of the pool (the CAPACITY of BUFFER_POOL, scaled down)
PoolSlots == 10

\* the threads that take from and return to the pool
PoolThreads == 3

\* the most take and return_value calls of one thread
MaxPoolOps == 2

\* a with_max_search that keeps the number it is given
with_max_searchAsGiven(max_loop) == max_loop

\* with_max_search: the length of the search loops, at most CAPACITY
with_max_search(max_loop) == IF max_loop <= PoolSlots THEN max_loop ELSE PoolSlots

\* the buffers that were returned, one after the other, before the threads
\* run: none, some of full size, or one new buffer for every entry
PreFilled == {0, 7, PoolSlots}

\* the capacity of each of the n buffers returned before
FilledCap(n) == IF n = PoolSlots THEN DEFAULT_BUFFER_LEN ELSE MAX_SINGLE_BUFFER

\* the capacities of the buffers the threads hold at first (0: none)
HeldCaps == {0, MAX_SINGLE_BUFFER, MAX_SINGLE_BUFFER + 1}

PoolEntryEmpty == [st |-> "EMPTY", cap |-> 0, id |-> 0, len |-> 0]

\* the identities of the buffers: thread t holds buffer t at first, the
\* buffers returned before are 10 + i, and the buffer create() makes in call
\* k of thread t is 20 + 10 * t + k
PreFilledId(i) == 10 + i

CreatedId(t, k) == 20 + 10 * t + k

\* gettid() of thread t
TidOf(t) == 100 + t

\* next_id: skip.fetch_add(tid) returns the offset of this call; only its
\* remainder by the number of entries is used
next_id(p, t) ==
    [id |-> p.skip, pool |-> [p EXCEPT !.skip = (p.skip + TidOf(t)) % PoolSlots]]

\* a search that takes the first entry it looks at, whatever its state
ProbeAnyState(entries, id, want) == (id % PoolSlots) + 1

\* the entries the search loop of a call with offset id passes to
\* compare_exchange, in order: (i + id) % CAPACITY for i in 0..max_loop-1, up
\* to the first whose state is want (the loop stops there)
Probed(entries, id, want) ==
    LET at(i) == ((i + id) % PoolSlots) + 1
        max_loop == with_max_search(MAX_SEARCH)
        hits == {i \in 0..(max_loop - 1) : entries[at(i)].st = want}
        last == IF hits = {} THEN max_loop - 1
                ELSE CHOOSE i \in hits : \A j \in hits : i <= j IN
    [k \in 1..(last + 1) |-> at(k - 1)]

\* the entry the search loop stops at: the first of the entries it looks at
\* whose state is want (the compare_exchange succeeds), or 0 when it finds
\* none
Probe(entries, id, want) ==
    LET p == Probed(entries, id, want) IN
    IF p # <<>> /\ entries[p[Len(p)]].st = want THEN p[Len(p)] ELSE 0

\* a return hook without the limit on one buffer
return_hookTotalOnly(cap, current) == ~(current + cap > MAX_TOTAL_BUFFERS)

\* the return hook of BUFFER_POOL: is the buffer of capacity cap admitted when
\* CURRENT_SIZE is read as current?
return_hook(cap, current) ==
    ~(cap > MAX_SINGLE_BUFFER \/ current + cap > MAX_TOTAL_BUFFERS)

InitPool ==
    /\ ProtoUnused
    /\ child = [pc |-> "none"]
    /\ cln = [pc |-> "none"]
    /\ maps = [pc |-> "none"]
    /\ fs = [pc |-> "none"]
    /\ \E n \in PreFilled : \E h \in [1..PoolThreads -> HeldCaps] :
          pool = [size |-> n * FilledCap(n), skip |-> 0,
                  entries |-> [i \in 1..PoolSlots |->
                                  IF i <= n THEN [st |-> "AVAILABLE", cap |-> FilledCap(n),
                                                  id |-> PreFilledId(i), len |-> 0]
                                  ELSE PoolEntryEmpty],
                  th |-> [t \in 1..PoolThreads |->
                             [pc |-> "idle", held |-> h[t], slot |-> 0, ops |-> 0,
                              hid |-> IF h[t] = 0 THEN 0 ELSE t,
                              hlen |-> h[t], probed |-> <<>>]],
                  accepted |-> {PreFilledId(i) : i \in 1..n},
                  refused |-> {}]

\* a return_value that goes on to store a value its hook refused
ReturnCheckKeepsRefused(t) ==
    LET th == pool.th[t] IN
    /\ th.pc = "idle" /\ th.held > 0 /\ th.ops < MaxPoolOps
    /\ pool' = IF return_hook(th.held, pool.size)
                  THEN [pool EXCEPT !.th[t].pc = "add", !.th[t].ops = th.ops + 1,
                                    !.accepted = pool.accepted \cup {th.hid}]
                  ELSE [pool EXCEPT !.th[t].pc = "probe", !.th[t].ops = th.ops + 1,
                                    !.refused = pool.refused \cup
                                                   {[id |-> th.hid, cap |-> th.held,
                                                     cur |-> pool.size]}]
    /\ UNCHANGED <<protoVars, child, cln, maps, fs>>

\* return_value: the return hook reads CURRENT_SIZE and refuses the buffer
\* (it is dropped) or admits it
ReturnCheck(t) ==
    LET th == pool.th[t] IN
    /\ th.pc = "idle" /\ th.held > 0 /\ th.ops < MaxPoolOps
    /\ pool' = IF return_hook(th.held, pool.size)
                  THEN [pool EXCEPT !.th[t].pc = "add", !.th[t].ops = th.ops + 1,
                                    !.accepted = pool.accepted \cup {th.hid}]
                  ELSE [pool EXCEPT !.th[t].held = 0, !.th[t].hid = 0,
                                    !.th[t].hlen = 0,
                                    !.th[t].ops = th.ops + 1,
                                    !.refused = pool.refused \cup
                                                   {[id |-> th.hid, cap |-> th.held,
                                                     cur |-> pool.size]}]
    /\ UNCHANGED <<protoVars, child, cln, maps, fs>>

\* a return hook that does not clear the buffer
ReturnAddNoClear(t) ==
    LET th == pool.th[t] IN
    /\ th.pc = "add"
    /\ pool' = [pool EXCEPT !.size = pool.size + th.held, !.th[t].pc = "probe"]
    /\ UNCHANGED <<protoVars, child, cln, maps, fs>>

\* the return hook: CURRENT_SIZE.fetch_add(capacity), clear
ReturnAdd(t) ==
    LET th == pool.th[t] IN
    /\ th.pc = "add"
    /\ pool' = [pool EXCEPT !.size = pool.size + th.held, !.th[t].hlen = 0,
                            !.th[t].pc = "probe"]
    /\ UNCHANGED <<protoVars, child, cln, maps, fs>>

\* return_value: the loop that claims an EMPTY entry (EMPTY -> WRITING); a
\* value that finds none is dropped
ReturnClaim(t) ==
    LET th == pool.th[t] IN
    /\ th.pc = "probe"
    /\ LET n == next_id(pool, t)
           s == Probe(pool.entries, n.id, "EMPTY")
           p == Probed(pool.entries, n.id, "EMPTY") IN
          pool' = IF s = 0
                     THEN [n.pool EXCEPT !.th[t].pc = "idle", !.th[t].held = 0,
                                         !.th[t].hid = 0, !.th[t].hlen = 0,
                                         !.th[t].probed = p]
                     ELSE [n.pool EXCEPT !.entries[s].st = "WRITING",
                                         !.th[t].pc = "write", !.th[t].slot = s,
                                         !.th[t].probed = p]
    /\ UNCHANGED <<protoVars, child, cln, maps, fs>>

\* return_value: the cell is written and the entry published
\* (WRITING -> AVAILABLE)
ReturnPublish(t) ==
    LET th == pool.th[t] IN
    /\ th.pc = "write"
    /\ pool' = [pool EXCEPT !.entries[th.slot] = [st |-> "AVAILABLE", cap |-> th.held,
                                                  id |-> th.hid, len |-> th.hlen],
                            !.th[t] = [th EXCEPT !.pc = "idle", !.held = 0, !.hid = 0,
                                                 !.hlen = 0, !.slot = 0,
                                                 !.probed = <<>>]]
    /\ UNCHANGED <<protoVars, child, cln, maps, fs>>

\* take: the loop that claims an AVAILABLE entry (AVAILABLE -> TAKING); when
\* it finds none, create() makes a buffer of DEFAULT_BUFFER_LEN
TakeClaim(t) ==
    LET th == pool.th[t] IN
    /\ th.pc = "idle" /\ th.held = 0 /\ th.ops < MaxPoolOps
    /\ LET n == next_id(pool, t)
           s == Probe(pool.entries, n.id, "AVAILABLE")
           p == Probed(pool.entries, n.id, "AVAILABLE") IN
          pool' = IF s = 0
                     THEN [n.pool EXCEPT !.th[t].held = DEFAULT_BUFFER_LEN,
                                         !.th[t].hid = CreatedId(t, th.ops),
                                         !.th[t].hlen = 0,
                                         !.th[t].ops = th.ops + 1,
                                         !.th[t].probed = p]
                     ELSE [n.pool EXCEPT !.entries[s].st = "TAKING",
                                         !.th[t].pc = "taking", !.th[t].slot = s,
                                         !.th[t].ops = th.ops + 1,
                                         !.th[t].probed = p]
    /\ UNCHANGED <<protoVars, child, cln, maps, fs>>

\* take: the value is moved out of the cell and the entry freed
\* (TAKING -> EMPTY)
TakeRelease(t) ==
    LET th == pool.th[t] IN
    /\ th.pc = "taking"
    /\ pool' = [pool EXCEPT !.entries[th.slot] = PoolEntryEmpty,
                            !.th[t] = [th EXCEPT !.pc = "hook", !.slot = 0,
                                                 !.held = pool.entries[th.slot].cap,
                                                 !.hid = pool.entries[th.slot].id,
                                                 !.hlen = pool.entries[th.slot].len,
                                                 !.probed = <<>>]]
    /\ UNCHANGED <<protoVars, child, cln, maps, fs>>

\* the take hook: CURRENT_SIZE.fetch_sub(capacity)
TakeHook(t) ==
    LET th == pool.th[t] IN
    /\ th.pc = "hook"
    /\ pool' = [pool EXCEPT !.size = pool.size - th.held, !.th[t].pc = "idle"]
    /\ UNCHANGED <<protoVars, child, cln, maps, fs>>

NextPool ==
    \/ \E t \in 1..PoolThreads : ReturnCheck(t)
    \/ \E t \in 1..PoolThreads : ReturnAdd(t)
    \/ \E t \in 1..PoolThreads : ReturnClaim(t)
    \/ \E t \in 1..PoolThreads : ReturnPublish(t)
    \/ \E t \in 1..PoolThreads : TakeClaim(t)
    \/ \E t \in 1..PoolThreads : TakeRelease(t)
    \/ \E t \in 1..PoolThreads : TakeHook(t)

\* BUFFER_POOL and the threads that use it
SpecPool == InitPool /\ [][NextPool]_vars

\* C30: clone calls clone_fallback exactly when clone3 reported ENOSYS,
\* which TEST_FALLBACK makes it report without a system call; after any
\* other clone3 error clone has returned the error and clone_fallback was not
\* called; and no system call, clone3 or clone, is passed TEST_FALLBACK.
C30_FallbackOnlyOnEnosys ==
    /\ cln.pc # "clone3" =>
          /\ cln.fallback # <<>> <=> cln.res3 = "ENOSYS"
          /\ cln.res3 \notin {"child", "ENOSYS"} =>
                cln.pc = "returned" /\ cln.ret = "Err" /\ Len(cln.kernel) = 1
          /\ "TEST_FALLBACK" \in cln.flags =>
                cln.res3 = "ENOSYS" /\ \A k \in 1..Len(cln.kernel) : cln.kernel[k].call = "clone"
    /\ \A k \in 1..Len(cln.kernel) : "TEST_FALLBACK" \notin cln.kernel[k].flags

\* C30 witness: clone with NEWUSER and TEST_FALLBACK made one system call,
\* clone(2) with NEWUSER alone, and returned the pid
C30_Witness ==
    /\ cln.pc = "returned" /\ cln.ret = "Ok"
    /\ cln.flags = {"NEWUSER", "TEST_FALLBACK"}
    /\ cln.res3 = "ENOSYS"
    /\ cln.kernel = <<[call |-> "clone", flags |-> {"NEWUSER"}]>>

\* ---------------------------------------------------------- claims: pool

\* the sum of the capacities of the buffers stored in the entries 1..n
StoredUpTo(n) ==
    LET RECURSIVE Sum(_)
        Sum(i) == IF i = 0 THEN 0
                  ELSE Sum(i - 1) + (IF pool.entries[i].st = "AVAILABLE"
                                        THEN pool.entries[i].cap ELSE 0) IN
    Sum(n)

\* C20: the capacities of the buffers stored in the pool never sum to more
\* than MAX_TOTAL_BUFFERS plus the capacity of one buffer.
C20_PoolBound ==
    StoredUpTo(PoolSlots) <= MAX_TOTAL_BUFFERS + MAX_SINGLE_BUFFER

\* the threads, and the entries that hold a value
Threads == 1..PoolThreads

Stored == {i \in 1..PoolSlots : pool.entries[i].st \in {"AVAILABLE", "TAKING"}}

\* C21: a returned buffer of more than MAX_SINGLE_BUFFER is dropped: no entry
\* stores one and no take hands one out, the buffer is gone once the hook has
\* refused it, and the step that refuses it changes neither CURRENT_SIZE nor
\* an entry.
C21_OversizeDropped ==
    /\ [](/\ \A i \in 1..PoolSlots : pool.entries[i].cap <= MAX_SINGLE_BUFFER
          /\ \A t \in Threads :
                pool.th[t].pc # "idle" => pool.th[t].held <= MAX_SINGLE_BUFFER
          /\ \A r \in pool.refused : \A t \in Threads : \A i \in 1..PoolSlots :
                r.cap > MAX_SINGLE_BUFFER =>
                    pool.th[t].hid # r.id /\ pool.entries[i].id # r.id)
    /\ [][\A t \in Threads :
             (pool.th[t].pc = "idle" /\ pool.th[t].held > MAX_SINGLE_BUFFER
                 /\ pool'.th[t] # pool.th[t])
             => /\ pool'.size = pool.size
                /\ pool'.entries = pool.entries
                /\ pool'.th[t].pc = "idle" /\ pool'.th[t].held = 0]_vars

\* C21 witness: a buffer of more than MAX_SINGLE_BUFFER was refused, and
\* afterwards a take has handed out a stored buffer
C21_Witness ==
    /\ \E r \in pool.refused : r.cap > MAX_SINGLE_BUFFER
    /\ \E t \in Threads : pool.th[t].pc = "hook"
    /\ pool.size > 0

\* C22: the limits of the default pool are 16 KiB for a new buffer, 16 MiB
\* for one buffer and 128 MiB for all buffers: the constants have these
\* values, and a buffer is refused only when it has more than 16 MiB or when
\* the counter it was checked against would pass 128 MiB with it.
C22_PoolLimits ==
    /\ DEFAULT_BUFFER_LEN = 16 * 1024
    /\ MAX_SINGLE_BUFFER = 16 * 1048576
    /\ MAX_TOTAL_BUFFERS = 128 * 1048576
    /\ \A r \in pool.refused :
          r.cap > 16 * 1048576 \/ r.cur + r.cap > 128 * 1048576

\* C23: the cell of an entry belongs to one thread at a time: an entry is
\* WRITING or TAKING exactly while one thread that claimed it is between its
\* two compare_exchange calls; every value is in one place only (held by one
\* thread or stored in one entry), so it is handed out at most once; the
\* entries that can be taken hold a value; at most CAPACITY values are stored.
C23_SlotExclusive ==
    /\ \A t, u \in Threads :
          t # u /\ pool.th[t].slot # 0 => pool.th[t].slot # pool.th[u].slot
    /\ \A t \in Threads :
          /\ pool.th[t].pc = "write" <=>
                pool.th[t].slot # 0 /\ pool.entries[pool.th[t].slot].st = "WRITING"
          /\ pool.th[t].pc = "taking" <=>
                pool.th[t].slot # 0 /\ pool.entries[pool.th[t].slot].st = "TAKING"
    /\ \A i \in 1..PoolSlots :
          pool.entries[i].st \in {"WRITING", "TAKING"} =>
              \E t \in Threads : pool.th[t].slot = i
    /\ \A i \in Stored : pool.entries[i].id # 0 /\ pool.entries[i].cap > 0
    /\ \A i, j \in Stored : i # j => pool.entries[i].id # pool.entries[j].id
    /\ \A t, u \in Threads :
          t # u /\ pool.th[t].hid # 0 => pool.th[t].hid # pool.th[u].hid
    /\ \A t \in Threads : \A i \in Stored : pool.th[t].hid # pool.entries[i].id
    /\ Cardinality(Stored) <= PoolSlots

\* C23 witness: one thread writes the cell of an entry while another takes
\* the value of a different entry, and a third holds a value it took
C23_Witness ==
    \E t, u, v \in Threads :
        /\ pool.th[t].pc = "write" /\ pool.th[u].pc = "taking"
        /\ pool.th[v].pc = "hook" /\ pool.th[v].hid # 0

\* C24: a value the return hook refused is stored nowhere, and what the
\* entries store and what take hands out of an entry was accepted by the
\* hook; any other value a take returns is made by create().
C24_HookFilters ==
    /\ \A r \in pool.refused :
          /\ \A i \in 1..PoolSlots : pool.entries[i].id # r.id
          /\ \A t \in Threads : pool.th[t].hid # r.id
    /\ \A i \in Stored : pool.entries[i].id \in pool.accepted
    /\ \A t \in Threads :
          /\ pool.th[t].pc \in {"add", "probe", "write", "hook"} =>
                pool.th[t].hid \in pool.accepted
          /\ (pool.th[t].hid # 0 /\ pool.th[t].hid \notin pool.accepted) =>
                \/ pool.th[t].hid = t
                \/ /\ \E k \in 0..MaxPoolOps : pool.th[t].hid = CreatedId(t, k)
                   /\ pool.th[t].held = DEFAULT_BUFFER_LEN

\* C24 witness: the hook has refused a value, a take has handed out a value
\* the hook accepted, and another take has made a new one
C24_Witness ==
    /\ pool.refused # {}
    /\ \E t \in Threads : pool.th[t].pc = "hook" /\ pool.th[t].hid \in pool.accepted
    /\ \E t \in Threads : \E k \in 0..MaxPoolOps :
          pool.th[t].hid = CreatedId(t, k) /\ pool.th[t].hid \notin pool.accepted

\* no entry occurs twice in the sequence p
NoRepeat(p) == \A i, j \in 1..Len(p) : i # j => p[i] # p[j]

\* a call of thread t is in progress, and t can take its next step
CanStep(t) ==
    ENABLED (ReturnAdd(t) \/ ReturnClaim(t) \/ ReturnPublish(t)
                \/ TakeRelease(t) \/ TakeHook(t))

Quiescent == \A t \in Threads : pool.th[t].pc = "idle"

\* C36: whenever no take and no return_value is in progress, CURRENT_SIZE is
\* the sum of the capacities of the buffers stored in the entries.
C36_SizeIsStoredSum ==
    Quiescent => pool.size = StoredUpTo(PoolSlots)

\* C40: every buffer the pool hands out has length 0: the buffers stored in
\* the entries have length 0, a buffer a take moved out of an entry has
\* length 0, and so has a buffer create() made.
C40_HandedOutEmpty ==
    /\ \A i \in Stored : pool.entries[i].len = 0
    /\ \A t \in Threads :
          /\ pool.th[t].pc = "hook" => pool.th[t].hlen = 0
          /\ (pool.th[t].pc = "idle" /\ pool.th[t].hid \notin {0, t}) =>
                pool.th[t].hlen = 0

\* C40 witness: a thread was handed the buffer another thread held, full, at
\* first and returned
C40_Witness ==
    \E t, u \in Threads :
        /\ t # u /\ pool.th[t].pc = "idle" /\ pool.th[t].hid = u
        /\ pool.th[t].held = MAX_SINGLE_BUFFER /\ pool.th[t].hlen = 0

\* ------------------------------------------- write_mappings (porkg-linux)

\* the longest users and groups arguments of the write_mappings call
MaxMappings == 2

\* the ids Uid::current() and Gid::current() can report: root, the user
\* whose id the mappings name, and another user
CurrentIds == {0, 1000, 1001}

\* the IdMapping values of the arguments: current_user_to_root() of the
\* user, and a range of subordinate ids
IdMappings ==
    { [child_start |-> 0, host_start |-> 1000, length |-> 1],
      [child_start |-> 1, host_start |-> 100000, length |-> 65536] }

\* the arguments as the caller passes them: an iterator, repeats allowed
MappingArgs == UNION { [1..n -> IdMappings] : n \in 0..MaxMappings }

\* users.into_iter().collect::<HashSet<_>>()
CollectHashSet(s) == Range(s)

\* the line "{child} {host} {length}" map_direct writes for one mapping, and
\* the three arguments map_shadowutils passes for it
MapLine(m) == <<m.child_start, m.host_start, m.length>>

\* a can_direct that takes any single mapping of length 1 for the id's own
can_directAnySingle(current, has_cap, mappings) ==
    \/ current = 0
    \/ /\ Cardinality(mappings) = 1
       /\ \A m \in mappings : m.length = 1
    \/ has_cap

\* can_direct: the id is root, or the set is the single mapping of the id
\* itself with length 1, or the capability is permitted
can_direct(current, has_cap, mappings) ==
    \/ current = 0
    \/ /\ Cardinality(mappings) = 1
       /\ \A m \in mappings : m.host_start = current /\ m.length = 1
    \/ has_cap

\* map_direct: the content written to /proc/<pid>/<map_file>, one line per
\* mapping of the set
map_direct(mappings) == { MapLine(m) : m \in mappings }

\* map_shadowutils: the arguments after the pid, three per mapping of the
\* set; a helper that exits with success has written one line per triple
map_shadowutils(mappings) == { MapLine(m) : m \in mappings }

\* a call of write_mappings for a new process: the maps are unset and
\* setgroups is the kernel's default
InitMaps ==
    /\ ProtoUnused
    /\ child = [pc |-> "none"]
    /\ cln = [pc |-> "none"]
    /\ pool = [pc |-> "none"]
    /\ fs = [pc |-> "none"]
    /\ \E u \in CurrentIds, g \in CurrentIds, cu \in BOOLEAN, cg \in BOOLEAN,
          tu \in BOOLEAN, tg \in BOOLEAN, us \in MappingArgs, gs \in MappingArgs :
          maps = [pc |-> "users", uid |-> u, gid |-> g,
                  cap_setuid |-> cu, cap_setgid |-> cg,
                  tools |-> [uid_map |-> tu, gid_map |-> tg],
                  argUsers |-> us, argGroups |-> gs,
                  users |-> CollectHashSet(us), groups |-> CollectHashSet(gs),
                  uid_map |-> {}, gid_map |-> {}, setgroups |-> "allow",
                  strategy |-> <<>>, order |-> <<>>, ret |-> "none"]

\* write_mappings, the user map: direct write, helper, or Err(NoTools); a
\* failed write or a failed helper returns the error
WriteMappingsUsers ==
    /\ maps.pc = "users"
    /\ IF can_direct(maps.uid, maps.cap_setuid, maps.users)
       THEN \/ maps' = [maps EXCEPT !.pc = "groups", !.strategy = <<"direct">>,
                                    !.order = <<"uid_map">>,
                                    !.uid_map = map_direct(maps.users)]
            \/ maps' = [maps EXCEPT !.pc = "returned", !.strategy = <<"direct">>,
                                    !.ret = "IO"]
       ELSE IF maps.tools.uid_map
       THEN \/ maps' = [maps EXCEPT !.pc = "groups", !.strategy = <<"helper">>,
                                    !.order = <<"uid_map">>,
                                    !.uid_map = map_shadowutils(maps.users)]
            \/ maps' = [maps EXCEPT !.pc = "returned", !.strategy = <<"helper">>,
                                    !.ret = "ShadowUtils"]
       ELSE maps' = [maps EXCEPT !.pc = "returned", !.ret = "NoTools"]
    /\ UNCHANGED <<protoVars, child, cln, pool, fs>>

\* a direct strategy that goes on to the group map without writing setgroups
WriteMappingsSetgroupsSkipped ==
    /\ maps.pc = "groups"
    /\ can_direct(maps.gid, maps.cap_setgid, maps.groups)
    /\ maps' = [maps EXCEPT !.pc = "gid_map", !.strategy = Append(@, "direct")]
    /\ UNCHANGED <<protoVars, child, cln, pool, fs>>

\* write_mappings, the group map, direct strategy: /proc/<pid>/setgroups is
\* opened and "deny" is written to it; an error is returned
WriteMappingsSetgroups ==
    /\ maps.pc = "groups"
    /\ can_direct(maps.gid, maps.cap_setgid, maps.groups)
    /\ \/ maps' = [maps EXCEPT !.pc = "gid_map", !.strategy = Append(@, "direct"),
                                !.order = Append(@, "setgroups"),
                                !.setgroups = "deny"]
       \/ maps' = [maps EXCEPT !.pc = "returned", !.ret = "IO",
                                !.strategy = Append(@, "direct")]
    /\ UNCHANGED <<protoVars, child, cln, pool, fs>>

\* write_mappings, the group map: map_direct after the setgroups write; or
\* the helper strategy, which runs newgidmap, which may or may not write
\* setgroups itself; or Err(NoTools)
WriteMappingsGroups ==
    /\ \/ /\ maps.pc = "gid_map"
          /\ \/ maps' = [maps EXCEPT !.pc = "returned", !.ret = "Ok",
                                      !.order = Append(@, "gid_map"),
                                      !.gid_map = map_direct(maps.groups)]
             \/ maps' = [maps EXCEPT !.pc = "returned", !.ret = "IO"]
       \/ /\ maps.pc = "groups"
          /\ ~can_direct(maps.gid, maps.cap_setgid, maps.groups)
          /\ IF maps.tools.gid_map
             THEN \/ \E sg \in {maps.setgroups, "deny"} :
                       maps' = [maps EXCEPT !.pc = "returned", !.ret = "Ok",
                                            !.strategy = Append(@, "helper"),
                                            !.order = Append(@, "gid_map"),
                                            !.setgroups = sg,
                                            !.gid_map = map_shadowutils(maps.groups)]
                  \/ maps' = [maps EXCEPT !.pc = "returned", !.ret = "ShadowUtils",
                                          !.strategy = Append(@, "helper")]
             ELSE maps' = [maps EXCEPT !.pc = "returned", !.ret = "NoTools"]
    /\ UNCHANGED <<protoVars, child, cln, pool, fs>>

NextMaps == WriteMappingsUsers \/ WriteMappingsSetgroups \/ WriteMappingsGroups

SpecMaps == InitMaps /\ [][NextMaps]_vars

\* C26: whenever write_mappings returns Ok, whichever strategy was chosen
\* for each map, the user map holds exactly the lines of the de-duplicated
\* users, the group map exactly the lines of the groups, and "deny" has been
\* written to /proc/<pid>/setgroups
C26_MappingCorrectness ==
    maps.pc = "returned" /\ maps.ret = "Ok" =>
        /\ maps.uid_map = { MapLine(m) : m \in Range(maps.argUsers) }
        /\ maps.gid_map = { MapLine(m) : m \in Range(maps.argGroups) }
        /\ maps.setgroups = "deny"

\* the strategy the rule of C31 gives for one map: the current id, whether
\* the capability is permitted, the arguments and whether the helper was found
StrategyFor(id, cap, args, tool) ==
    IF \/ id = 0
       \/ \E m \in Range(args) : Range(args) = {m} /\ m.host_start = id /\ m.length = 1
       \/ cap
    THEN "direct"
    ELSE IF tool THEN "helper" ELSE "NoTools"

\* C31: each map is written directly if the current id is 0, or the
\* de-duplicated mappings are one mapping of the current id with length 1, or
\* the capability is permitted; otherwise by the helper if it was found;
\* otherwise write_mappings fails with NoTools. A helper that fails gives a
\* ShadowUtils error.
C31_StrategyChoice ==
    LET su == StrategyFor(maps.uid, maps.cap_setuid, maps.argUsers, maps.tools.uid_map)
        sg == StrategyFor(maps.gid, maps.cap_setgid, maps.argGroups, maps.tools.gid_map)
    IN /\ maps.pc # "users" =>
             IF su = "NoTools"
             THEN maps.pc = "returned" /\ maps.ret = "NoTools" /\ maps.strategy = <<>>
             ELSE Len(maps.strategy) >= 1 /\ maps.strategy[1] = su
       /\ maps.pc = "returned" /\ su # "NoTools" /\ Len(maps.strategy) = 1 =>
             IF maps.ret = "NoTools" THEN sg = "NoTools"
             ELSE maps.ret = (IF su = "helper" THEN "ShadowUtils" ELSE "IO")
       /\ Len(maps.strategy) = 2 =>
             /\ maps.strategy[2] = sg
             /\ maps.pc = "returned" =>
                   maps.ret \in {"Ok", IF sg = "helper" THEN "ShadowUtils" ELSE "IO"}

\* C31 witness: a user who maps a range of subordinate ids besides their own
\* has the user map written by the helper; the group map, the single mapping
\* of their group, was written directly
C31_Witness ==
    /\ maps.pc = "returned" /\ maps.ret = "Ok"
    /\ maps.uid = 1000 /\ ~maps.cap_setuid /\ Cardinality(maps.users) = 2
    /\ maps.gid = 1000 /\ ~maps.cap_setgid /\ Cardinality(maps.groups) = 1
    /\ maps.strategy = <<"helper", "direct">>

\* C32: a direct write of gid_map comes after a successful write of "deny"
\* to setgroups; when the setgroups write fails gid_map is not written and
\* write_mappings returns an error; and the uid map was written before
\* anything is done for the gid map.
C32_SetgroupsBeforeGidMap ==
    /\ Len(maps.strategy) = 2 \/ maps.pc = "gid_map" \/ maps.order # <<>> =>
          maps.order # <<>> /\ maps.order[1] = "uid_map"
    /\ Len(maps.strategy) = 2 /\ maps.strategy[2] = "direct" =>
          /\ "gid_map" \in Range(maps.order) =>
                maps.order = <<"uid_map", "setgroups", "gid_map">> /\ maps.setgroups = "deny"
          /\ "setgroups" \notin Range(maps.order) =>
                /\ maps.pc = "returned" /\ maps.ret = "IO"
                /\ "gid_map" \notin Range(maps.order) /\ maps.gid_map = {}

\* C32 witness: both maps were written directly, in the order uid_map,
\* setgroups, gid_map
C32_Witness ==
    /\ maps.pc = "returned" /\ maps.ret = "Ok"
    /\ maps.strategy = <<"direct", "direct">>
    /\ maps.order = <<"uid_map", "setgroups", "gid_map">>
    /\ maps.gid_map # {}

\* ------------------------------------------------ fs: bind and pivot

\* the errors a system call of the fs layer may report
Errnos == {"EPERM", "EINVAL", "EBUSY"}

\* the BindFlags a caller may pass
BindFlagSets == SUBSET {"RECURSIVE", "READ_ONLY"}

\* what is mounted at new_root when pivot is called
MountsAtRoot == {"none", "shared", "private"}

\* has_existing_shared_mount: None when /proc/self/mountinfo cannot be read
\* or holds no mount at the path, else whether that mount is shared
has_existing_shared_mount(readable, mount) ==
    IF ~readable \/ mount = "none" THEN "None"
    ELSE IF mount = "shared" THEN "Some(true)" ELSE "Some(false)"

\* the system calls of pivot after the mount at new_root is prepared, in the
\* order of the code
PivotSteps ==
    << [call |-> "open", arg |-> "new_root", flags |-> {"O_DIRECTORY", "O_RDONLY"}],
       [call |-> "pivot_root", arg |-> "new_root", flags |-> {}],
       [call |-> "mount", arg |-> "/", flags |-> {"MS_SLAVE", "MS_REC"}],
       [call |-> "umount2", arg |-> "/", flags |-> {"MNT_DETACH"}],
       [call |-> "fchdir", arg |-> "newroot fd", flags |-> {}] >>

\* a system call that was issued, with its result: "Ok" or an errno
Issued(c, res) == [call |-> c.call, arg |-> c.arg, flags |-> c.flags, res |-> res]

\* the results a system call may have
SysResults == {"Ok"} \cup Errnos

\* the call returns res: Ok, or the error that wraps the errno
FsReturn(f, res) == [f EXCEPT !.pc = "returned", !.ret = res]

\* a call of bind(source, target, flags), or a call of pivot(new_root) with
\* some mount or none at new_root and mountinfo readable or not
InitFs ==
    /\ ProtoUnused
    /\ child = [pc |-> "none"]
    /\ cln = [pc |-> "none"]
    /\ pool = [pc |-> "none"]
    /\ maps = [pc |-> "none"]
    /\ \/ \E fl \in BindFlagSets :
            fs = [op |-> "bind", pc |-> "mount", flags |-> fl, mount |-> "none",
                  readable |-> TRUE, step |-> 0, calls |-> <<>>, ret |-> "none"]
       \/ \E m \in MountsAtRoot, r \in BOOLEAN :
            fs = [op |-> "pivot", pc |-> "prepare", flags |-> {}, mount |-> m,
                  readable |-> r, step |-> 0, calls |-> <<>>, ret |-> "none"]

\* bind: the bind mount, MS_BIND with MS_REC if RECURSIVE; its error is
\* returned; without READ_ONLY bind returns Ok after it
BindMount ==
    /\ fs.op = "bind" /\ fs.pc = "mount"
    /\ \E res \in SysResults :
          LET c == [call |-> "mount", arg |-> "target",
                    flags |-> {"MS_BIND"} \cup
                              (IF "RECURSIVE" \in fs.flags THEN {"MS_REC"} ELSE {})]
              f == [fs EXCEPT !.calls = Append(@, Issued(c, res))]
          IN fs' = IF res # "Ok" THEN FsReturn(f, res)
                   ELSE IF "READ_ONLY" \in fs.flags THEN [f EXCEPT !.pc = "remount"]
                   ELSE FsReturn(f, "Ok")
    /\ UNCHANGED <<protoVars, child, cln, pool, maps>>

\* a remount whose error is logged and dropped
BindRemountSwallowed ==
    /\ fs.op = "bind" /\ fs.pc = "remount"
    /\ \E res \in SysResults :
          LET c == [call |-> "mount", arg |-> "target",
                    flags |-> {"MS_REMOUNT", "MS_BIND", "MS_RDONLY"}]
          IN fs' = FsReturn([fs EXCEPT !.calls = Append(@, Issued(c, res))], "Ok")
    /\ UNCHANGED <<protoVars, child, cln, pool, maps>>

\* bind with READ_ONLY: the remount of the target, read-only; its error is
\* returned
BindRemount ==
    /\ fs.op = "bind" /\ fs.pc = "remount"
    /\ \E res \in SysResults :
          LET c == [call |-> "mount", arg |-> "target",
                    flags |-> {"MS_REMOUNT", "MS_BIND", "MS_RDONLY"}]
          IN fs' = FsReturn([fs EXCEPT !.calls = Append(@, Issued(c, res))], res)
    /\ UNCHANGED <<protoVars, child, cln, pool, maps>>

\* pivot: the match on has_existing_shared_mount: a shared mount is made
\* private, a path without a mount is bound to itself, a mount that is not
\* shared is left alone
PivotPrepare ==
    /\ fs.op = "pivot" /\ fs.pc = "prepare"
    /\ LET h == has_existing_shared_mount(fs.readable, fs.mount) IN
          IF h = "Some(false)"
          THEN fs' = [fs EXCEPT !.pc = "steps", !.step = 1]
          ELSE \E res \in SysResults :
                 LET c == IF h = "Some(true)"
                          THEN [call |-> "mount", arg |-> "new_root",
                                flags |-> {"MS_PRIVATE", "MS_REC"}]
                          ELSE [call |-> "mount", arg |-> "new_root onto new_root",
                                flags |-> {"MS_PRIVATE", "MS_BIND", "MS_REC"}]
                     f == [fs EXCEPT !.calls = Append(@, Issued(c, res))]
                 IN fs' = IF res = "Ok" THEN [f EXCEPT !.pc = "steps", !.step = 1]
                          ELSE FsReturn(f, res)
    /\ UNCHANGED <<protoVars, child, cln, pool, maps>>

\* a pivot that goes on after a step that failed
PivotStepGoesOn ==
    /\ fs.op = "pivot" /\ fs.pc = "steps"
    /\ \E res \in SysResults :
          LET f == [fs EXCEPT !.calls = Append(@, Issued(PivotSteps[fs.step], res))]
          IN fs' = IF fs.step < Len(PivotSteps) THEN [f EXCEPT !.step = fs.step + 1]
                   ELSE FsReturn(f, res)
    /\ UNCHANGED <<protoVars, child, cln, pool, maps>>

\* pivot: the next of open, pivot_root, mount, umount2 and fchdir; an error
\* is returned, after the last step pivot returns Ok
PivotStep ==
    /\ fs.op = "pivot" /\ fs.pc = "steps"
    /\ \E res \in SysResults :
          LET f == [fs EXCEPT !.calls = Append(@, Issued(PivotSteps[fs.step], res))]
          IN fs' = IF res # "Ok" THEN FsReturn(f, res)
                   ELSE IF fs.step < Len(PivotSteps) THEN [f EXCEPT !.step = fs.step + 1]
                   ELSE FsReturn(f, "Ok")
    /\ UNCHANGED <<protoVars, child, cln, pool, maps>>

NextFs == BindMount \/ BindRemount \/ PivotPrepare \/ PivotStep

\* one call of bind or of pivot
SpecFs == InitFs /\ [][NextFs]_vars

\* the system calls of the sequence s without their results
CallsOf(s) == [i \in 1..Len(s) |-> [call |-> s[i].call, arg |-> s[i].arg, flags |-> s[i].flags]]

\* every call of s but the last succeeded
FailsOnlyLast(s) == \A i \in 1..Len(s) - 1 : s[i].res = "Ok"

\* C33: bind with READ_ONLY returns Ok only after the bind mount and the
\* remount MS_REMOUNT|MS_BIND|MS_RDONLY both succeeded; a remount that fails
\* is returned as the error of bind; without READ_ONLY no remount is issued.
C33_BindReadOnly ==
    fs.pc = "returned" /\ fs.op = "bind" =>
        /\ FailsOnlyLast(fs.calls) /\ fs.calls # <<>>
        /\ fs.ret = fs.calls[Len(fs.calls)].res
        /\ fs.calls[1].flags \cap {"MS_REMOUNT", "MS_RDONLY"} = {}
        /\ IF "READ_ONLY" \in fs.flags
           THEN fs.ret = "Ok" =>
                  /\ Len(fs.calls) = 2
                  /\ fs.calls[2].flags = {"MS_REMOUNT", "MS_BIND", "MS_RDONLY"}
           ELSE Len(fs.calls) = 1

\* C33 witness: a read-only bind whose bind mount succeeded and whose remount
\* failed has returned the remount's error
C33_Witness ==
    /\ fs.pc = "returned" /\ fs.op = "bind" /\ "READ_ONLY" \in fs.flags
    /\ Len(fs.calls) = 2 /\ fs.calls[1].res = "Ok" /\ fs.calls[2].res = "EPERM"
    /\ fs.ret = "EPERM"

\* the first step of pivot as mountinfo tells it
PrepareCall(h) ==
    IF h = "Some(true)"
    THEN <<[call |-> "mount", arg |-> "new_root", flags |-> {"MS_PRIVATE", "MS_REC"}]>>
    ELSE IF h = "None"
    THEN <<[call |-> "mount", arg |-> "new_root onto new_root",
            flags |-> {"MS_PRIVATE", "MS_BIND", "MS_REC"}]>>
    ELSE <<>>

\* the calls of a pivot that has returned are a prefix of first \o PivotSteps,
\* only the last of them may have failed, and pivot returned Ok exactly when
\* all of them were issued and succeeded
PivotOrder(first) ==
    LET all == first \o PivotSteps
        n == Len(fs.calls)
    IN /\ n >= 1 /\ n <= Len(all)
       /\ CallsOf(fs.calls) = SubSeq(all, 1, n)
       /\ FailsOnlyLast(fs.calls)
       /\ fs.ret = fs.calls[n].res
       /\ fs.ret = "Ok" => n = Len(all)

\* C34 as stated: the first step is chosen by the mount at new_root: a shared
\* mount is made private, no mount is bound to itself, a mount that is not
\* shared needs nothing; then open, pivot_root, the remount of /, umount2 and
\* fchdir follow in this order, the first failure is returned and ends the
\* call, and Ok is returned only after all of them.
C34_PivotOrderByMount ==
    fs.pc = "returned" /\ fs.op = "pivot" =>
        PivotOrder(PrepareCall(has_existing_shared_mount(TRUE, fs.mount)))

\* C34, amended: the first step is chosen by what has_existing_shared_mount
\* reports, which is None also when mountinfo cannot be read: then new_root is
\* bound to itself whatever is mounted there. The order of the steps, the
\* return at the first failure and Ok only after every step are as stated.
C34_PivotOrder ==
    fs.pc = "returned" /\ fs.op = "pivot" =>
        PivotOrder(PrepareCall(has_existing_shared_mount(fs.readable, fs.mount)))

\* C34 witness: a pivot to a shared mount made it private and went through
\* all five steps
C34_Witness ==
    /\ fs.pc = "returned" /\ fs.op = "pivot" /\ fs.ret = "Ok"
    /\ fs.mount = "shared" /\ fs.readable
    /\ Len(fs.calls) = 6 /\ fs.calls[1].flags = {"MS_PRIVATE", "MS_REC"}
    /\ fs.calls[6].call = "fchdir"

====
